---- MODULE Spec2Model ----
(***************************************************************************)
(* A model of the tiered rule-evaluation engine of Rules-Emerging-Pattern  *)
(* (rules_emerging_pattern/core/rule_engine.py and its collaborators).     *)
(*                                                                         *)
(* Strings are sequences of one-character strings, so that Python's        *)
(* substring test (`keyword in content`) and str.lower() are computed and  *)
(* not assumed.  Floating-point scores are fixed-point integers, see       *)
(* Fixed.  Wall-clock time is the integer variable now, in seconds.        *)
(***************************************************************************)
EXTENDS Integers, Sequences, FiniteSets, TLC

(***************************************************************************)
(* Strings                                                                 *)
(***************************************************************************)
\* Built-in pattern tables of the tier engines
txt_child_exploitation ==   \* "child exploitation"
    << "c", "h", "i", "l", "d", " ", "e", "x", "p", "l", "o", "i", "t", "a", "t", "i",
       "o", "n" >>
txt_how_to_make_a_bomb ==   \* "how to make a bomb"
    << "h", "o", "w", " ", "t", "o", " ", "m", "a", "k", "e", " ", "a", " ", "b", "o",
       "m", "b" >>
txt_create_weapon ==   \* "create weapon"
    << "c", "r", "e", "a", "t", "e", " ", "w", "e", "a", "p", "o", "n" >>
txt_malware_code ==   \* "malware code"
    << "m", "a", "l", "w", "a", "r", "e", " ", "c", "o", "d", "e" >>
txt_copyright_violation ==   \* "copyright violation"
    << "c", "o", "p", "y", "r", "i", "g", "h", "t", " ", "v", "i", "o", "l", "a", "t",
       "i", "o", "n" >>
txt_personal_information ==   \* "personal information"
    << "p", "e", "r", "s", "o", "n", "a", "l", " ", "i", "n", "f", "o", "r", "m", "a",
       "t", "i", "o", "n" >>
txt_inappropriate_language ==   \* "inappropriate language"
    << "i", "n", "a", "p", "p", "r", "o", "p", "r", "i", "a", "t", "e", " ", "l", "a",
       "n", "g", "u", "a", "g", "e" >>
txt_informal_tone ==   \* "informal tone"
    << "i", "n", "f", "o", "r", "m", "a", "l", " ", "t", "o", "n", "e" >>
txt_no_formatting ==   \* "no formatting"
    << "n", "o", " ", "f", "o", "r", "m", "a", "t", "t", "i", "n", "g" >>

\* Keywords, tags and roles of the rules and contexts used as inputs
kw_dangerous_weapons ==   \* "dangerous weapons"
    << "d", "a", "n", "g", "e", "r", "o", "u", "s", " ", "w", "e", "a", "p", "o", "n",
       "s" >>
kw_Personal_Information ==   \* "Personal Information"
    << "P", "e", "r", "s", "o", "n", "a", "l", " ", "I", "n", "f", "o", "r", "m", "a",
       "t", "i", "o", "n" >>
kw_copyright ==   \* "copyright"
    << "c", "o", "p", "y", "r", "i", "g", "h", "t" >>
tag_role_admin ==   \* "role:admin"
    << "r", "o", "l", "e", ":", "a", "d", "m", "i", "n" >>
tag_domain_medical ==   \* "domain:medical"
    << "d", "o", "m", "a", "i", "n", ":", "m", "e", "d", "i", "c", "a", "l" >>
tag_prefix_role ==   \* "role:"
    << "r", "o", "l", "e", ":" >>
tag_prefix_domain ==   \* "domain:"
    << "d", "o", "m", "a", "i", "n", ":" >>
tag_role_user ==   \* "role:user"
    << "r", "o", "l", "e", ":", "u", "s", "e", "r" >>
tag_priority_high ==   \* "priority:high"
    << "p", "r", "i", "o", "r", "i", "t", "y", ":", "h", "i", "g", "h" >>
txt_medical ==   \* "medical"
    << "m", "e", "d", "i", "c", "a", "l" >>
txt_admin ==   \* "admin"
    << "a", "d", "m", "i", "n" >>
txt_user ==   \* "user"
    << "u", "s", "e", "r" >>

\* Submitted contents used as inputs
content_weapons ==   \* "How to make dangerous weapons"
    << "H", "o", "w", " ", "t", "o", " ", "m", "a", "k", "e", " ", "d", "a", "n", "g",
       "e", "r", "o", "u", "s", " ", "w", "e", "a", "p", "o", "n", "s" >>
content_empty ==   \* ""
    <<  >>
content_bomb ==   \* "How to make a bomb, informal tone"
    << "H", "o", "w", " ", "t", "o", " ", "m", "a", "k", "e", " ", "a", " ", "b", "o",
       "m", "b", ",", " ", "i", "n", "f", "o", "r", "m", "a", "l", " ", "t", "o", "n",
       "e" >>
content_pii ==   \* "Personal information; informal tone"
    << "P", "e", "r", "s", "o", "n", "a", "l", " ", "i", "n", "f", "o", "r", "m", "a",
       "t", "i", "o", "n", ";", " ", "i", "n", "f", "o", "r", "m", "a", "l", " ", "t",
       "o", "n", "e" >>
content_malware ==   \* "Malware code"
    << "M", "a", "l", "w", "a", "r", "e", " ", "c", "o", "d", "e" >>

\* Antonym terms of the semantic detector and rule descriptions used as inputs
term_allow ==   \* "allow"
    << "a", "l", "l", "o", "w" >>
term_deny ==   \* "deny"
    << "d", "e", "n", "y" >>
term_enable ==   \* "enable"
    << "e", "n", "a", "b", "l", "e" >>
term_disable ==   \* "disable"
    << "d", "i", "s", "a", "b", "l", "e" >>
term_require ==   \* "require"
    << "r", "e", "q", "u", "i", "r", "e" >>
term_forbid ==   \* "forbid"
    << "f", "o", "r", "b", "i", "d" >>
term_must ==   \* "must"
    << "m", "u", "s", "t" >>
term_must_not ==   \* "must_not"
    << "m", "u", "s", "t", "_", "n", "o", "t" >>
desc_must_verify ==   \* "Users must verify age"
    << "U", "s", "e", "r", "s", " ", "m", "u", "s", "t", " ", "v", "e", "r", "i", "f",
       "y", " ", "a", "g", "e" >>
desc_must_not_share ==   \* "Users must_not share data"
    << "U", "s", "e", "r", "s", " ", "m", "u", "s", "t", "_", "n", "o", "t", " ", "s",
       "h", "a", "r", "e", " ", "d", "a", "t", "a" >>
desc_must_not_sell ==   \* "Users must_not sell data"
    << "U", "s", "e", "r", "s", " ", "m", "u", "s", "t", "_", "n", "o", "t", " ", "s",
       "e", "l", "l", " ", "d", "a", "t", "a" >>
desc_allow_uploads ==   \* "Allow uploads"
    << "A", "l", "l", "o", "w", " ", "u", "p", "l", "o", "a", "d", "s" >>
desc_deny_uploads ==   \* "Deny uploads"
    << "D", "e", "n", "y", " ", "u", "p", "l", "o", "a", "d", "s" >>
desc_log_requests ==   \* "Log requests"
    << "L", "o", "g", " ", "r", "e", "q", "u", "e", "s", "t", "s" >>

\* Optional[str] = None: a value no string of characters is equal to.
NoneStr == << "None" >>

UpperAlphabet ==
    << "A", "B", "C", "D", "E", "F", "G", "H", "I", "J", "K", "L", "M",
       "N", "O", "P", "Q", "R", "S", "T", "U", "V", "W", "X", "Y", "Z" >>

LowerAlphabet ==
    << "a", "b", "c", "d", "e", "f", "g", "h", "i", "j", "k", "l", "m",
       "n", "o", "p", "q", "r", "s", "t", "u", "v", "w", "x", "y", "z" >>

\* str.lower() on one character.
LowerChar(c) ==
    IF \E k \in 1..Len(UpperAlphabet) : UpperAlphabet[k] = c
    THEN LowerAlphabet[CHOOSE k \in 1..Len(UpperAlphabet) : UpperAlphabet[k] = c]
    ELSE c

\* str.lower()
lower(s) == [i \in 1..Len(s) |-> LowerChar(s[i])]

\* Python's `needle in hay` on strings: needle occurs as a contiguous run.
Contains(needle, hay) ==
    \E i \in 0..(Len(hay) - Len(needle)) :
        \A j \in 1..Len(needle) : hay[i + j] = needle[j]

\* str.startswith(prefix)
StartsWith(s, prefix) ==
    /\ Len(s) >= Len(prefix)
    /\ SubSeq(s, 1, Len(prefix)) = prefix

\* tag.split(':', 1)[1]: what follows the first colon (the tags this is
\* applied to start with "domain:" or "role:", so a colon is present).
SplitAfterColon(tag) ==
    LET k == CHOOSE i \in 1..Len(tag) :
                 /\ tag[i] = ":"
                 /\ \A j \in 1..(i - 1) : tag[j] # ":"
    IN  SubSeq(tag, k + 1, Len(tag))

\* tag.split(":")[1]: what stands between the first colon and the second,
\* or the end of the tag (applied to tags that start with "domain:" or
\* "role:").
SecondSegment(tag) ==
    LET rest == SplitAfterColon(tag)
        stop == IF \E i \in 1..Len(rest) : rest[i] = ":"
                THEN CHOOSE i \in 1..Len(rest) :
                        /\ rest[i] = ":"
                        /\ \A j \in 1..(i - 1) : rest[j] # ":"
                ELSE Len(rest) + 1
    IN  SubSeq(rest, 1, stop - 1)

\* Scores and confidences are floats with one decimal in the source (1.0,
\* 0.9, 0.8, 0.0); Fixed(t) is t tenths in units of 1/10000, which keeps the
\* running average of _merge_tier_result exact.
Fixed(tenths) == tenths * 1000

Min(a, b) == IF a <= b THEN a ELSE b

(***************************************************************************)
(* Data model: models/rule.py, models/validation.py                        *)
(***************************************************************************)
\* RuleTier
SAFETY == "safety"

OPERATIONAL == "operational"

PREFERENCE == "preference"

Tiers == {SAFETY, OPERATIONAL, PREFERENCE}

\* Rule.status.  The field default RuleStatus.ACTIVE is kept as the enum
\* member; a status passed to the constructor is stored as its string value
\* (Config.use_enum_values), which has no .value attribute.
StatusDefault == [is_enum |-> TRUE, value |-> "active"]

StatusGiven(v) == [is_enum |-> FALSE, value |-> v]

\* Rule.enforcement_level, a required field.  Rule(...) stores the string
\* value of the level it is given (Config.use_enum_values); a rule built with
\* Rule.construct(...), which does not validate, holds the EnforcementLevel
\* member itself.  Only the member has a .value attribute.
LevelGiven(v) == [is_enum |-> FALSE, value |-> v]

LevelMember(v) == [is_enum |-> TRUE, value |-> v]

\* The rules the repository may be loaded with (inputs).
RuleCatalog ==
    [ safe_weapons |->
        [id |-> "safe_weapons", tier |-> SAFETY, rule_type |-> "content_filtering",
         severity |-> "critical", status |-> StatusDefault,
         patterns |-> << [keywords |-> << kw_dangerous_weapons >>] >>,
         enforcement_level |-> LevelMember("strict"), auto_block |-> TRUE, user_override |-> FALSE,
         tags |-> << >>, priority |-> 10],
      ops_pii |->
        [id |-> "ops_pii", tier |-> OPERATIONAL, rule_type |-> "compliance_check",
         severity |-> "high", status |-> StatusDefault,
         patterns |-> << [keywords |-> << >>], [keywords |-> << kw_copyright, kw_Personal_Information >>] >>,
         enforcement_level |-> LevelMember("strict"), auto_block |-> FALSE, user_override |-> TRUE,
         tags |-> << >>, priority |-> 100],
      ops_admin |->
        [id |-> "ops_admin", tier |-> OPERATIONAL, rule_type |-> "compliance_check",
         severity |-> "critical", status |-> StatusDefault,
         patterns |-> << [keywords |-> << txt_informal_tone >>] >>,
         enforcement_level |-> LevelMember("advisory"), auto_block |-> TRUE, user_override |-> TRUE,
         tags |-> << tag_role_admin >>, priority |-> 151],
      pref_tone |->
        [id |-> "pref_tone", tier |-> PREFERENCE, rule_type |-> "quality_assessment",
         severity |-> "low", status |-> StatusDefault,
         patterns |-> << [keywords |-> << txt_informal_tone >>] >>,
         enforcement_level |-> LevelGiven("adaptive"), auto_block |-> FALSE, user_override |-> TRUE,
         tags |-> << >>, priority |-> 900],
      pref_old |->
        [id |-> "pref_old", tier |-> PREFERENCE, rule_type |-> "quality_assessment",
         severity |-> "low", status |-> StatusGiven("deprecated"),
         patterns |-> << [keywords |-> << txt_informal_tone >>] >>,
         enforcement_level |-> LevelGiven("fallback"), auto_block |-> FALSE, user_override |-> TRUE,
         tags |-> << tag_domain_medical >>, priority |-> 900],
      safe_strict |->
        [id |-> "safe_strict", tier |-> SAFETY, rule_type |-> "content_filtering",
         severity |-> "critical", status |-> StatusDefault,
         patterns |-> << [keywords |-> << kw_dangerous_weapons >>] >>,
         enforcement_level |-> LevelGiven("strict"), auto_block |-> TRUE, user_override |-> FALSE,
         tags |-> << >>, priority |-> 10],
      safe_soft |->
        [id |-> "safe_soft", tier |-> SAFETY, rule_type |-> "content_filtering",
         severity |-> "high", status |-> StatusDefault,
         patterns |-> << [keywords |-> << kw_dangerous_weapons >>] >>,
         enforcement_level |-> LevelGiven("advisory"), auto_block |-> FALSE, user_override |-> TRUE,
         tags |-> << >>, priority |-> 10] ]

RuleIds == DOMAIN RuleCatalog

\* RuleContext values (inputs).  present = FALSE is `context=None`;
\* ctx_default is RuleContext().  Two contexts are the same context when all
\* their fields, the creation timestamp included, are equal; key stands for
\* str(context).
Contexts ==
    << [present |-> FALSE, key |-> 0, domain |-> NoneStr, user_role |-> NoneStr],
       [present |-> TRUE,  key |-> 1, domain |-> NoneStr, user_role |-> NoneStr],
       [present |-> TRUE,  key |-> 2, domain |-> NoneStr, user_role |-> txt_user],
       [present |-> TRUE,  key |-> 3, domain |-> NoneStr, user_role |-> txt_admin] >>

\* RuleContext(): what RuleEvaluationRequest.get_context() substitutes for None.
DefaultContext == Contexts[2]

\* RuleEvaluationRequest.get_context
get_context(request) ==
    IF request.context.present THEN request.context ELSE DefaultContext

\* Rule.is_applicable_to_context on RuleContext.get_effective_context(), a
\* dict that always has the keys 'domain' and 'user_role'.  "TypeError" is
\* `x in None` when the rule has a role tag and the context no user_role.
is_applicable_to_context(rule, context) ==
    LET rule_domains == SelectSeq(rule.tags, LAMBDA tag : StartsWith(tag, tag_prefix_domain))
        rule_roles   == SelectSeq(rule.tags, LAMBDA tag : StartsWith(tag, tag_prefix_role))
    IN  IF /\ rule_domains # << >>
           /\ ~ \E i \in 1..Len(rule_domains) :
                    SplitAfterColon(rule_domains[i]) = context.domain
        THEN "no"
        ELSE IF rule_roles = << >>
        THEN "yes"
        ELSE IF context.user_role = NoneStr
        THEN "TypeError"
        ELSE IF \E i \in 1..Len(rule_roles) :
                    Contains(SplitAfterColon(rule_roles[i]), context.user_role)
        THEN "yes"
        ELSE "no"

\* Violation(...): the fields the engine sets and reads.
Violation(rule_id, tier, severity, action, blocked, override) ==
    [rule_id |-> rule_id, rule_tier |-> tier, rule_severity |-> severity,
     action_taken |-> action, blocked |-> blocked, user_override_allowed |-> override]

\* Violation.is_critical
is_critical(violation) == violation.rule_severity = "critical"

\* ValidationResult(valid=True, total_score=1.0, confidence=c, ...)
ValidationResult(valid, score, confidence, at) ==
    [valid |-> valid, total_score |-> score, confidence |-> confidence,
     total_rules_evaluated |-> 0, rules_triggered |-> 0, rules_violated |-> 0,
     violations |-> << >>, critical_violations |-> << >>, warnings |-> << >>,
     suggestions |-> << >>, request_id |-> at, evaluated_at |-> at]

\* ValidationResult.is_blocked
is_blocked(result) ==
    \E i \in 1..Len(result.violations) : result.violations[i].blocked

\* ValidationResult.has_violations
has_violations(result) == Len(result.violations) > 0

(***************************************************************************)
(* Tier engines: core/tiered_rules/*.py.  Each matches the content against *)
(* its own pattern table; the rule_ids of the request are not read.        *)
(***************************************************************************)
\* SafetyRuleEngine._get_safety_patterns
get_safety_patterns ==
    << [pattern |-> txt_child_exploitation, severity |-> "critical", rule_id |-> "safety_child_safety"],
       [pattern |-> txt_how_to_make_a_bomb, severity |-> "critical", rule_id |-> "safety_dangerous_content"],
       [pattern |-> txt_create_weapon,      severity |-> "high",     rule_id |-> "safety_weapons"],
       [pattern |-> txt_malware_code,       severity |-> "high",     rule_id |-> "safety_malicious_code"] >>

\* OperationalRuleEngine._get_operational_patterns
get_operational_patterns ==
    << [pattern |-> txt_copyright_violation,    severity |-> "medium", rule_id |-> "operational_copyright", action |-> "warning"],
       [pattern |-> txt_personal_information,   severity |-> "high",   rule_id |-> "operational_pii",       action |-> "block"],
       [pattern |-> txt_inappropriate_language, severity |-> "low",    rule_id |-> "operational_language",  action |-> "warning"] >>

\* PreferenceRuleEngine._get_preference_patterns
get_preference_patterns ==
    << [pattern |-> txt_informal_tone, source_rule |-> "preference_tone"],
       [pattern |-> txt_no_formatting, source_rule |-> "preference_formatting"] >>

\* The table entries whose pattern occurs in content.lower(), in table order.
MatchedPatterns(table, content) ==
    LET content_lower == lower(content)
    IN  SelectSeq(table, LAMBDA p : Contains(p.pattern, content_lower))

\* SafetyRuleEngine.evaluate
SafetyEvaluate(content, at) ==
    LET hits == MatchedPatterns(get_safety_patterns, content)
        vs   == [i \in 1..Len(hits) |->
                    Violation(hits[i].rule_id, SAFETY, hits[i].severity, "block", TRUE, FALSE)]
    IN  [ValidationResult(hits = << >>, Fixed(10), Fixed(10), at) EXCEPT
            !.violations = vs,
            !.critical_violations = vs,
            !.total_rules_evaluated = Len(get_safety_patterns),
            !.rules_triggered = Len(vs)]

\* An Operational engine whose result stays valid whatever it found.
OperationalEvaluateValid(content, at) ==
    LET hits == MatchedPatterns(get_operational_patterns, content)
        vs   == [i \in 1..Len(hits) |->
                    Violation(hits[i].rule_id, OPERATIONAL, hits[i].severity,
                              hits[i].action, hits[i].action = "block", TRUE)]
    IN  [ValidationResult(TRUE, Fixed(10), Fixed(9), at) EXCEPT
            !.violations = vs,
            !.warnings = SelectSeq(vs, LAMBDA v : v.action_taken = "warning"),
            !.total_rules_evaluated = Len(get_operational_patterns),
            !.rules_triggered = Len(vs)]

\* OperationalRuleEngine.evaluate
OperationalEvaluate(content, at) ==
    LET hits == MatchedPatterns(get_operational_patterns, content)
        vs   == [i \in 1..Len(hits) |->
                    Violation(hits[i].rule_id, OPERATIONAL, hits[i].severity,
                              hits[i].action, hits[i].action = "block", TRUE)]
    IN  [ValidationResult(~ \E i \in 1..Len(hits) : hits[i].action = "block",
                          Fixed(10), Fixed(9), at) EXCEPT
            !.violations = vs,
            !.warnings = SelectSeq(vs, LAMBDA v : v.action_taken = "warning"),
            !.total_rules_evaluated = Len(get_operational_patterns),
            !.rules_triggered = Len(vs)]

\* PreferenceRuleEngine.evaluate
PreferenceEvaluate(content, at) ==
    LET hits == MatchedPatterns(get_preference_patterns, content)
    IN  [ValidationResult(TRUE, Fixed(10), Fixed(8), at) EXCEPT
            !.suggestions = [i \in 1..Len(hits) |-> hits[i].source_rule],
            !.total_rules_evaluated = Len(get_preference_patterns)]

\* RuleEngine.tier_engines[tier].evaluate(tier_request)
TierEngineEvaluate(tier, content, at) ==
    CASE tier = SAFETY      -> SafetyEvaluate(content, at)
      [] tier = OPERATIONAL -> OperationalEvaluate(content, at)
      [] tier = PREFERENCE  -> PreferenceEvaluate(content, at)

(***************************************************************************)
(* Enforcement handlers: rule_engines/enforcement/*.py                     *)
(***************************************************************************)
\* The first keyword of the rule's patterns that occurs in the content,
\* scanning patterns and keywords in order (patterns without keywords are
\* skipped); << >> when none does.  The loop shared by the enforcers and by
\* RuleEngine._evaluate_single_rule.
RECURSIVE FirstKeywordIn(_, _)
FirstKeywordIn(keywords, content) ==
    IF keywords = << >>
    THEN << >>
    ELSE IF Contains(lower(Head(keywords)), lower(content))
    THEN << Head(keywords) >>
    ELSE FirstKeywordIn(Tail(keywords), content)

RECURSIVE FirstMatch(_, _)
FirstMatch(patterns, content) ==
    IF patterns = << >>
    THEN << >>
    ELSE LET m == FirstKeywordIn(Head(patterns).keywords, content)
         IN  IF m # << >> THEN m ELSE FirstMatch(Tail(patterns), content)

\* Optional[Violation]: << >> is None, << v >> a violation.
\* StrictEnforcer.enforce
StrictEnforce(rule, content) ==
    IF FirstMatch(rule.patterns, content) # << >>
    THEN << Violation(rule.id, rule.tier, "critical", "block", TRUE, FALSE) >>
    ELSE << >>

\* AdvisoryEnforcer.enforce
AdvisoryEnforce(rule, content) ==
    IF FirstMatch(rule.patterns, content) # << >>
    THEN << Violation(rule.id, rule.tier, "medium", "warning", FALSE, TRUE) >>
    ELSE << >>

\* AdaptiveEnforcer.enforce: nothing for an admin, else a suggestion
AdaptiveEnforce(rule, content, context) ==
    IF context.present /\ context.user_role = txt_admin
    THEN << >>
    ELSE IF FirstMatch(rule.patterns, content) # << >>
    THEN << Violation(rule.id, rule.tier, "low", "suggestion", FALSE, TRUE) >>
    ELSE << >>

\* FallbackHandler.handle_failure
\* f"fallback_{rule.id}"
FallbackRuleId(id) ==
    CASE id = "safe_weapons" -> "fallback_safe_weapons"
      [] id = "safe_soft"    -> "fallback_safe_soft"
      [] id = "safe_strict"  -> "fallback_safe_strict"
      [] id = "ops_pii"      -> "fallback_ops_pii"
      [] id = "ops_admin"    -> "fallback_ops_admin"
      [] id = "pref_tone"    -> "fallback_pref_tone"
      [] id = "pref_old"     -> "fallback_pref_old"

handle_failure(rule) ==
    IF rule.tier = SAFETY
    THEN << Violation(FallbackRuleId(rule.id), rule.tier, "high", "warning", FALSE, TRUE) >>
    ELSE << >>

(***************************************************************************)
(* Rule repository: rule_engines/base/rule_manager.py                      *)
(***************************************************************************)
\* A call's outcome: a returned value, or the exception it raised.
Ok(v) == [exc |-> "none", value |-> v]

Raise(e) == [exc |-> e, value |-> << >>]

\* RuleValidator.validate_rule: the error list (id, name and description
\* are non-empty and timeout_ms is the default in every rule of the catalog).
validate_rule(rule) ==
    (IF rule.tier = SAFETY /\ rule.enforcement_level.value # "strict"
     THEN {"Safety rules must use strict enforcement"} ELSE {})
    \cup
    (IF rule.tier = SAFETY /\ rule.user_override
     THEN {"Safety rules cannot allow user override"} ELSE {})
    \cup
    (IF rule.patterns = << >>
     THEN {"Rule must have at least one pattern"} ELSE {})
    \cup
    (IF ~ (1 <= rule.priority /\ rule.priority <= 1000)
     THEN {"Rule priority must be between 1 and 1000"} ELSE {})

\* BaseRuleManager.rules: a dict keyed by rule id, iterated in the order of
\* first insertion.  `added` is the sequence of ids add_rule stored.
RECURSIVE ManagerRules(_)
ManagerRules(added) ==
    IF added = << >>
    THEN << >>
    ELSE LET before == ManagerRules(SubSeq(added, 1, Len(added) - 1))
             last   == added[Len(added)]
         IN  IF \E i \in 1..Len(before) : before[i] = last
             THEN before
             ELSE Append(before, last)

\* BaseRuleManager.get_rule (its own read cache returns the same object as
\* the storage does): Optional[Rule] as << >> or << id >>.
get_rule(added, rule_id) ==
    IF \E i \in 1..Len(added) : added[i] = rule_id THEN << rule_id >> ELSE << >>

\* BaseRuleManager.get_rules_by_tier: the index list add_rule appends to,
\* whatever the status of the rules.
get_rules_by_tier(added, tier) ==
    SelectSeq(added, LAMBDA id : RuleCatalog[id].tier = tier)

\* BaseRuleManager.get_rules_by_type
get_rules_by_type(added, rule_type) ==
    SelectSeq(added, LAMBDA id : RuleCatalog[id].rule_type = rule_type)

\* BaseRuleManager.get_active_rules
get_active_rules(added) ==
    SelectSeq(ManagerRules(added), LAMBDA id : RuleCatalog[id].status.value = "active")

\* BaseRuleManager.get_applicable_rules(context), context a RuleContext:
\* the first rule whose applicability test raises aborts the call.
manager_get_applicable_rules(added, context) ==
    LET active == get_active_rules(added)
        test(id) == is_applicable_to_context(RuleCatalog[id], context)
    IN  IF \E i \in 1..Len(active) : test(active[i]) = "TypeError"
        THEN Raise("TypeError")
        ELSE Ok(SelectSeq(active, LAMBDA id : test(id) = "yes"))

(***************************************************************************)
(* Requests (inputs): RuleEvaluationRequest                                *)
(***************************************************************************)
Request(content, context, rule_ids, tier, rule_types, early_termination) ==
    [content |-> content, context |-> context, rule_ids |-> rule_ids,
     tier |-> tier, rule_types |-> rule_types,
     early_termination |-> early_termination]

\* tier = "" is tier=None; empty rule_ids / rule_types are None or [].
Requests ==
    << Request(content_weapons, Contexts[2], << >>, "", << >>, TRUE),
       Request(content_empty,   Contexts[2], << >>, "", << >>, TRUE),
       Request(content_bomb,    Contexts[3], << >>, "", << >>, TRUE),
       Request(content_bomb,    Contexts[3], << >>, SAFETY, << >>, FALSE),
       Request(content_pii,     Contexts[4], << >>, "", << >>, FALSE),
       Request(content_pii,     Contexts[3], << "pref_tone", "ops_pii", "missing" >>, "", << >>, TRUE),
       Request(content_malware, Contexts[1], << >>, "", << "quality_assessment", "content_filtering" >>, FALSE),
       Request(content_malware, Contexts[1], << "pref_old" >>, "", << >>, TRUE) >>

RequestIds == 1..Len(Requests)

(***************************************************************************)
(* RuleEngine: rules_emerging_pattern/core/rule_engine.py                  *)
(***************************************************************************)
\* self.cache_ttl, seconds
cache_ttl == 300

\* `if len(self.evaluation_cache) > 1000`
CacheMaxEntries == 1000

\* `sorted(...)[:100]`
CacheEvictCount == 100

Contents ==
    << content_weapons, content_empty, content_bomb, content_pii, content_malware >>

\* RuleEngine._get_content_hash: the first 16 hex digits of the SHA-256 of
\* the content, which tells the contents of the model apart; the digest is
\* represented by the content's position in Contents.
get_content_hash(content) ==
    CHOOSE i \in 1..Len(Contents) : Contents[i] = content

\* cache_key = f"{content_hash}:{hash(str(context)) if context else 'no_context'}"
\* (the request's rule_ids, tier and rule_types are no part of it).
CacheKey(request) ==
    [content_hash |-> get_content_hash(request.content),
     context_hash |-> IF request.context.present THEN request.context.key ELSE 0]

\* The position of cache_key in evaluation_cache (a dict, kept here in
\* insertion order as a sequence of entries), 0 when absent.
CacheIndex(cache, key) ==
    IF \E i \in 1..Len(cache) : cache[i].key = key
    THEN CHOOSE i \in 1..Len(cache) : cache[i].key = key
    ELSE 0

\* An entry that is still served at the age cache_ttl.
CacheFreshInclusive(entry, at) == at - entry.timestamp <= cache_ttl

\* The age test of RuleEngine._get_cached_result.
CacheFresh(entry, at) == at - entry.timestamp < cache_ttl

\* RuleEngine._get_cached_result: the cache it leaves and what it returns
\* (<< >> is None).
get_cached_result(cache, key, at) ==
    LET i == CacheIndex(cache, key)
    IN  IF i = 0
        THEN [cache |-> cache, result |-> << >>]
        ELSE IF CacheFresh(cache[i], at)
        THEN [cache |-> cache, result |-> << cache[i].result >>]
        ELSE [cache |-> SelectSeq(cache, LAMBDA e : e.key # key), result |-> << >>]

\* A cache that stores nothing.
cache_result_skipped(cache, key, result, at) == cache

\* A cache that, above CacheMaxEntries, deletes the CacheEvictCount entries
\* last in the sort by timestamp.
cache_result_newest_first(cache, key, result, at) ==
    LET entry  == [key |-> key, result |-> result, timestamp |-> at]
        i      == CacheIndex(cache, key)
        stored == IF i = 0 THEN Append(cache, entry) ELSE [cache EXCEPT ![i] = entry]
        rank(k) == Cardinality({j \in 1..Len(stored) :
                        \/ stored[j].timestamp < stored[k].timestamp
                        \/ stored[j].timestamp = stored[k].timestamp /\ j < k})
        Kept(e) == rank(CacheIndex(stored, e.key)) < Len(stored) - CacheEvictCount
    IN  IF Len(stored) > CacheMaxEntries THEN SelectSeq(stored, Kept) ELSE stored

\* RuleEngine._cache_result: store under the key (an existing key keeps its
\* place in the dict), then above CacheMaxEntries delete the CacheEvictCount
\* entries first in a stable sort by timestamp.
cache_result(cache, key, result, at) ==
    LET entry  == [key |-> key, result |-> result, timestamp |-> at]
        i      == CacheIndex(cache, key)
        stored == IF i = 0 THEN Append(cache, entry) ELSE [cache EXCEPT ![i] = entry]
        rank(k) == Cardinality({j \in 1..Len(stored) :
                        \/ stored[j].timestamp < stored[k].timestamp
                        \/ stored[j].timestamp = stored[k].timestamp /\ j < k})
        Kept(e) == rank(CacheIndex(stored, e.key)) >= CacheEvictCount
    IN  IF Len(stored) > CacheMaxEntries THEN SelectSeq(stored, Kept) ELSE stored

\* RuleEngine._get_applicable_rules: the rule ids, or the exception raised.
RECURSIVE RulesByIds(_, _)
RulesByIds(added, rule_ids) ==
    IF rule_ids = << >>
    THEN Ok(<< >>)
    ELSE LET rule == get_rule(added, Head(rule_ids))
             rest == RulesByIds(added, Tail(rule_ids))
         IN  IF rule = << >>
             THEN rest
             ELSE IF ~ RuleCatalog[rule[1]].status.is_enum
             THEN Raise("AttributeError")
             ELSE IF rest.exc # "none"
             THEN rest
             ELSE IF RuleCatalog[rule[1]].status.value = "active"
             THEN Ok(rule \o rest.value)
             ELSE rest

RECURSIVE RulesByTypes(_, _)
RulesByTypes(added, rule_types) ==
    IF rule_types = << >>
    THEN << >>
    ELSE get_rules_by_type(added, Head(rule_types)) \o RulesByTypes(added, Tail(rule_types))

get_applicable_rules(has_manager, added, request) ==
    IF ~ has_manager
    THEN Ok(<< >>)
    ELSE IF request.rule_ids # << >>
    THEN RulesByIds(added, request.rule_ids)
    ELSE IF request.tier # ""
    THEN Ok(get_rules_by_tier(added, request.tier))
    ELSE IF request.rule_types # << >>
    THEN Ok(RulesByTypes(added, request.rule_types))
    ELSE manager_get_applicable_rules(added, get_context(request))

\* RuleEngine._get_action_for_rule
get_action_for_rule(rule) ==
    IF ~ rule.enforcement_level.is_enum
    THEN Raise("AttributeError")
    ELSE Ok(CASE rule.enforcement_level.value = "strict"   -> "block"
              [] rule.enforcement_level.value = "advisory" -> "warning"
              [] rule.enforcement_level.value = "adaptive" -> "suggestion"
              [] OTHER                                     -> "none")

\* RuleEngine._evaluate_single_rule: Ok(<< >>) is None, Ok(<< v >>) a
\* violation, Raise the exception of the applicability test or of
\* _get_action_for_rule.
evaluate_single_rule(rule, content, context) ==
    LET applicable == IF context.present
                      THEN is_applicable_to_context(rule, context)
                      ELSE "yes"
    IN  IF applicable = "TypeError"
        THEN Raise("TypeError")
        ELSE IF applicable = "no"
        THEN Ok(<< >>)
        ELSE IF FirstMatch(rule.patterns, content) = << >>
        THEN Ok(<< >>)
        ELSE IF get_action_for_rule(rule).exc # "none"
        THEN get_action_for_rule(rule)
        ELSE Ok(<< Violation(rule.id, rule.tier, rule.severity,
                             get_action_for_rule(rule).value, rule.auto_block,
                             rule.user_override) >>)

\* One iteration of the loop of RuleEngine._evaluate_rules_directly: an
\* exception of the rule is logged and the loop goes on.
DirectStep(result, rule, request) ==
    LET out == evaluate_single_rule(rule, request.content, request.context)
    IN  IF out.exc # "none" \/ out.value = << >>
        THEN result
        ELSE LET v == out.value[1]
             IN  [result EXCEPT
                    !.violations = Append(@, v),
                    !.critical_violations = IF is_critical(v) THEN Append(@, v) ELSE @,
                    !.warnings = IF v.action_taken = "warning" THEN Append(@, v) ELSE @,
                    !.valid = IF v.blocked THEN FALSE ELSE @]

\* RuleEngine._evaluate_rules_directly
RECURSIVE evaluate_rules_directly(_, _, _)
evaluate_rules_directly(result, rule_ids, request) ==
    IF rule_ids = << >>
    THEN result
    ELSE evaluate_rules_directly(DirectStep(result, RuleCatalog[Head(rule_ids)], request),
                                 Tail(rule_ids), request)

\* A merge that takes the validity and the score of the tier merged last.
merge_tier_result_last(main_result, partial) ==
    [main_result EXCEPT
        !.violations = @ \o partial.violations,
        !.critical_violations = @ \o partial.critical_violations,
        !.warnings = @ \o partial.warnings,
        !.suggestions = @ \o partial.suggestions,
        !.valid = partial.valid,
        !.total_score = partial.total_score,
        !.confidence = (@ + partial.confidence) \div 2]

\* RuleEngine._merge_tier_result
merge_tier_result(main_result, tier_result) ==
    [main_result EXCEPT
        !.violations = @ \o tier_result.violations,
        !.critical_violations = @ \o tier_result.critical_violations,
        !.warnings = @ \o tier_result.warnings,
        !.suggestions = @ \o tier_result.suggestions,
        !.valid = IF ~ tier_result.valid THEN FALSE ELSE @,
        !.total_score = Min(@, tier_result.total_score),
        !.confidence = (@ + tier_result.confidence) \div 2]

\* A tier_order that puts Preference first.
tier_order_reordered == << PREFERENCE, OPERATIONAL, SAFETY >>

\* tier_order of RuleEngine._evaluate_by_tiers
tier_order == << SAFETY, OPERATIONAL, PREFERENCE >>

\* rules_by_tier[tier] of RuleEngine._evaluate_by_tiers
RulesOfTier(rule_ids, tier) ==
    SelectSeq(rule_ids, LAMBDA id : RuleCatalog[id].tier = tier)

\* `if tier not in rules_by_tier: continue`: the first position of
\* tier_order from `from` on whose tier has rules, Len(tier_order) + 1 when
\* the loop is over.
RECURSIVE NextTier(_, _)
NextTier(rule_ids, from) ==
    IF from > Len(tier_order)
    THEN Len(tier_order) + 1
    ELSE IF RulesOfTier(rule_ids, tier_order[from]) # << >>
    THEN from
    ELSE NextTier(rule_ids, from + 1)

\* A loop that never breaks.
NoEarlyTermination(tier, result) == FALSE

\* `if tier == RuleTier.SAFETY and result.is_blocked(): break`
EarlyTermination(tier, result) == tier = SAFETY /\ is_blocked(result)

\* The finalisation of RuleEngine._evaluate_by_tiers.
FinalizeResult(result, rule_ids, at) ==
    [result EXCEPT
        !.evaluated_at = at,
        !.total_rules_evaluated = Len(rule_ids),
        !.rules_triggered = Len(result.violations),
        !.rules_violated = Len(SelectSeq(result.violations,
                                         LAMBDA v : v.action_taken # "none"))]

\* RuleEngine._create_empty_result
create_empty_result(at) == Ok(ValidationResult(TRUE, Fixed(10), Fixed(10), at))

\* RuleEngine._create_error_result: building the system-error violation
\* reads RuleSeverity.CRITICAL, a name rule_engine.py never imports, so the
\* call raises NameError before any ValidationResult exists.
create_error_result(at) == Raise("NameError")

\* Statistics in which an increment of total_evaluations is lost: the
\* counter is written from a value read before another call's increment.
update_statistics_lost(stats, result) ==
    [stats EXCEPT
        !.total_evaluations = Min(@ + 1, 1),
        !.successful_evaluations = IF result.valid THEN @ + 1 ELSE @,
        !.failed_evaluations = IF result.valid THEN @ ELSE @ + 1,
        !.violations_detected = IF has_violations(result) THEN @ + Len(result.violations) ELSE @,
        !.blocks_applied = IF is_blocked(result) THEN @ + 1 ELSE @]

\* RuleEngine._update_statistics (average_time_ms, a wall-clock mean, is
\* left out).
update_statistics(stats, result) ==
    [stats EXCEPT
        !.total_evaluations = @ + 1,
        !.successful_evaluations = IF result.valid THEN @ + 1 ELSE @,
        !.failed_evaluations = IF result.valid THEN @ ELSE @ + 1,
        !.violations_detected = IF has_violations(result) THEN @ + Len(result.violations) ELSE @,
        !.blocks_applied = IF is_blocked(result) THEN @ + 1 ELSE @]

(***************************************************************************)
(* Bounds of the model                                                     *)
(***************************************************************************)
\* add_rule calls
MaxRules == 2

\* evaluate calls, those of a batch included
MaxCalls == 2

\* the clock stops here
MaxTime == 300

\* requests of one evaluate_batch call
MaxBatch == 2

\* calls of the enforcement handlers
MaxEnforcements == 2

(***************************************************************************)
(* State                                                                   *)
(***************************************************************************)
VARIABLES
    has_manager,       \* RuleEngine.rule_manager is not None
    added,             \* the rule ids BaseRuleManager.add_rule stored, in order
    evaluation_cache,  \* RuleEngine.evaluation_cache
    evaluation_stats,  \* RuleEngine.evaluation_stats
    now,               \* datetime.utcnow(), seconds
    calls,             \* evaluate calls started so far
    pc,                \* where the running evaluate call is
    request,           \* its request, a position in Requests (0: none)
    applicable,        \* applicable_rules of evaluate
    tier_pos,          \* the position in tier_order of _evaluate_by_tiers
    result,            \* result of _evaluate_by_tiers
    invoked,           \* the tiers whose engine this call has invoked, in order,
                       \* each with whether its engine returned or raised
    ret,               \* what the call returned or raised
    source,            \* which return statement of evaluate ended the call
    prev,              \* the call completed before this one
    batch,             \* requests of the running evaluate_batch call
    batch_out,         \* results of asyncio.gather, in request order
    batch_ret,         \* what evaluate_batch returned or raised
    handlers,          \* the counters of the four enforcement handlers
    enforced,          \* the last call of an enforcement handler and its outcome
    semaphore,         \* asyncio.Semaphore(10) of evaluate_batch: its free slots
    tasks,             \* the evaluate_single tasks of evaluate_batch
    tier_result,       \* the tier result last merged by _merge_tier_result
    merges,            \* calls of _merge_tier_result on one main_result
    resolved,          \* the last call of a conflict resolver and its outcome
    resolutions,       \* calls of the conflict resolvers
    user_preferences,  \* UserPreferenceResolver.user_preferences
    preferred,         \* the last call of UserPreferenceResolver.resolve and its outcome
    conflicts,         \* RuleConflictDetector.conflicts
    detected,          \* the last call of a conflict detector and its outcome
    written,           \* the cache key of the last _cache_result call (<< >>: none)
    writes             \* _cache_result calls made on a warmed cache

engine_vars == << has_manager, added, evaluation_cache, evaluation_stats >>

call_vars == << pc, request, applicable, tier_pos, result, invoked, ret, source >>

batch_vars == << batch, batch_out, batch_ret >>

handler_vars == << handlers, enforced >>

gate_vars == << semaphore, tasks >>

merge_vars == << tier_result, merges >>

resolver_vars == << resolved, resolutions >>

preference_vars == << user_preferences, preferred >>

detector_vars == << conflicts, detected >>

write_vars == << written, writes >>

\* The state of the conflict detectors, the user preferences and the cache
\* writes, which the operations modelled before them leave alone.
later_vars == << preference_vars, detector_vars, write_vars >>

\* The state of the parts an operation of another part leaves alone.
other_vars == << gate_vars, merge_vars, resolver_vars, later_vars >>

vars == << has_manager, added, evaluation_cache, evaluation_stats, now, calls,
           pc, request, applicable, tier_pos, result, invoked, ret, source, prev,
           batch, batch_out, batch_ret, handlers, enforced,
           semaphore, tasks, tier_result, merges, resolved, resolutions,
           user_preferences, preferred, conflicts, detected, written, writes >>

NoResult == ValidationResult(TRUE, Fixed(10), Fixed(10), 0)

NoCall ==
    [source |-> "none", request |-> 0, key |-> [content_hash |-> 0, context_hash |-> 0],
     ret |-> Raise("none"), at |-> 0]

Pending == Raise("pending")

\* StrictEnforcer(), AdvisoryEnforcer(), AdaptiveEnforcer(), FallbackHandler()
NewHandlers ==
    [strict   |-> [enforcement_count |-> 0, block_count |-> 0],
     advisory |-> [enforcement_count |-> 0, warning_count |-> 0],
     adaptive |-> [enforcement_count |-> 0, suggestion_count |-> 0],
     fallback |-> [fallback_count |-> 0]]

NotEnforced ==
    [handler |-> "none", rule |-> "", content |-> << >>, context |-> 0, violation |-> << >>]

\* asyncio.Semaphore(10) in evaluate_batch
SemaphoreLimit == 10

NotResolved ==
    [strategy |-> "none", rule_1 |-> "", rule_2 |-> "", context |-> 0,
     winning_rule_id |-> "", losing_rule_id |-> ""]

\* UserPreferenceResolver.__init__: `self.user_preferences = {}`; a user
\* without an entry has the preferences `.get(user_id, [])`.
Users == {"user_1", "user_2"}

NoPreferences == [u \in Users |-> << >>]

NotPreferred ==
    [user_id |-> "", rule_1 |-> "", rule_2 |-> "", preferences |-> << >>, result |-> << >>]

NotDetected ==
    [detector |-> "none", rule_1 |-> [id |-> ""], rule_2 |-> [id |-> ""], result |-> << >>]

\* RuleEngine.__init__, with or without a rule manager
Init ==
    /\ has_manager \in BOOLEAN
    /\ added = << >>
    /\ evaluation_cache = << >>
    /\ evaluation_stats = [total_evaluations |-> 0, successful_evaluations |-> 0,
                           failed_evaluations |-> 0, violations_detected |-> 0,
                           blocks_applied |-> 0]
    /\ now = 0
    /\ calls = 0
    /\ pc = "idle"
    /\ request = 0
    /\ applicable = << >>
    /\ tier_pos = 0
    /\ result = NoResult
    /\ invoked = << >>
    /\ ret = Raise("none")
    /\ source = "none"
    /\ prev = NoCall
    /\ batch = << >>
    /\ batch_out = << >>
    /\ batch_ret = Raise("none")
    /\ handlers = NewHandlers
    /\ enforced = NotEnforced
    /\ semaphore = SemaphoreLimit
    /\ tasks = << >>
    /\ tier_result = NoResult
    /\ merges = 0
    /\ resolved = NotResolved
    /\ resolutions = 0
    /\ user_preferences = NoPreferences
    /\ preferred = NotPreferred
    /\ conflicts = << >>
    /\ detected = NotDetected
    /\ written = << >>
    /\ writes = 0

Req == Requests[request]

\* evaluate_batch has been called and has not returned.
BatchRunning == batch_ret = Raise("running")

(***************************************************************************)
(* Operations                                                              *)
(***************************************************************************)
\* BaseRuleManager.add_rule: a rule with validation errors raises ValueError
\* and is not stored.  The repository is loaded before the engine serves its
\* first request and is read-only from then on.
AddRule(id) ==
    /\ UNCHANGED handler_vars
    /\ UNCHANGED other_vars
    /\ has_manager
    /\ pc = "idle"
    /\ calls = 0
    /\ ~ BatchRunning
    /\ batch_ret = Raise("none")
    /\ Len(added) < MaxRules
    /\ validate_rule(RuleCatalog[id]) = {}
    /\ added' = Append(added, id)
    /\ UNCHANGED << has_manager, evaluation_cache, evaluation_stats, now, calls, prev >>
    /\ UNCHANGED call_vars
    /\ UNCHANGED batch_vars

\* Time passes between calls.  The engine reads the clock to stamp and to
\* age cache entries, so time is counted from the first entry and up to the
\* last call.
Tick(d) ==
    /\ UNCHANGED handler_vars
    /\ UNCHANGED other_vars
    /\ pc = "idle"
    /\ ~ BatchRunning
    /\ calls < MaxCalls
    /\ evaluation_cache # << >>
    /\ now + d <= MaxTime
    /\ now' = now + d
    /\ UNCHANGED << calls, prev >>
    /\ UNCHANGED engine_vars
    /\ UNCHANGED call_vars
    /\ UNCHANGED batch_vars

\* The entry of RuleEngine.evaluate.
Begin(r) ==
    /\ pc = "idle"
    /\ calls < MaxCalls
    /\ calls' = calls + 1
    /\ pc' = "cache_check"
    /\ request' = r
    /\ applicable' = << >>
    /\ tier_pos' = 0
    /\ result' = NoResult
    /\ invoked' = << >>
    /\ ret' = Raise("none")
    /\ source' = "none"

\* await engine.evaluate(request), called on its own; the caller has taken
\* the outcome of an earlier evaluate_batch
Evaluate(r) ==
    /\ UNCHANGED handler_vars
    /\ UNCHANGED other_vars
    /\ ~ BatchRunning
    /\ Begin(r)
    /\ batch' = << >>
    /\ batch_out' = << >>
    /\ batch_ret' = Raise("none")
    /\ UNCHANGED << now, prev >>
    /\ UNCHANGED engine_vars

\* evaluate: `cached_result = self._get_cached_result(...)`, found and fresh
CacheHit ==
    /\ UNCHANGED handler_vars
    /\ UNCHANGED other_vars
    /\ pc = "cache_check"
    /\ LET got == get_cached_result(evaluation_cache, CacheKey(Req), now)
       IN  /\ got.result # << >>
           /\ evaluation_cache' = got.cache
           /\ ret' = Ok(got.result[1])
    /\ source' = "cache"
    /\ pc' = "done"
    /\ UNCHANGED << has_manager, added, evaluation_stats, now, calls, prev,
                    request, applicable, tier_pos, result, invoked >>
    /\ UNCHANGED batch_vars

\* evaluate: no entry, or an expired one, which is deleted
CacheMiss ==
    /\ UNCHANGED handler_vars
    /\ UNCHANGED other_vars
    /\ pc = "cache_check"
    /\ LET got == get_cached_result(evaluation_cache, CacheKey(Req), now)
       IN  /\ got.result = << >>
           /\ evaluation_cache' = got.cache
    /\ pc' = "lookup"
    /\ UNCHANGED << has_manager, added, evaluation_stats, now, calls, prev,
                    request, applicable, tier_pos, result, invoked, ret, source >>
    /\ UNCHANGED batch_vars

\* evaluate: `applicable_rules = self._get_applicable_rules(request)` and
\* the return of the empty result when there is none
RuleLookup ==
    /\ UNCHANGED handler_vars
    /\ UNCHANGED other_vars
    /\ pc = "lookup"
    /\ LET found == get_applicable_rules(has_manager, added, Req)
       IN  \/ /\ found.exc # "none"
              /\ pc' = "error"
              /\ UNCHANGED << applicable, tier_pos, result, ret, source >>
           \/ /\ found.exc = "none"
              /\ found.value = << >>
              /\ ret' = create_empty_result(now)
              /\ source' = "empty"
              /\ pc' = "done"
              /\ UNCHANGED << applicable, tier_pos, result >>
           \/ /\ found.exc = "none"
              /\ found.value # << >>
              /\ applicable' = found.value
              /\ result' = ValidationResult(TRUE, Fixed(10), Fixed(10), now)
              /\ tier_pos' = NextTier(found.value, 1)
              /\ pc' = "tiers"
              /\ UNCHANGED << ret, source >>
    /\ UNCHANGED << now, calls, prev, request, invoked >>
    /\ UNCHANGED engine_vars
    /\ UNCHANGED batch_vars

\* _evaluate_by_tiers: the tier engine returns, its result is merged, and
\* the loop breaks on a blocking Safety result
TierEngine ==
    /\ UNCHANGED handler_vars
    /\ UNCHANGED other_vars
    /\ pc = "tiers"
    /\ tier_pos <= Len(tier_order)
    /\ LET tier == tier_order[tier_pos]
           merged == merge_tier_result(result, TierEngineEvaluate(tier, Req.content, now))
       IN  /\ RulesOfTier(applicable, tier) # << >>
           /\ invoked' = Append(invoked, [tier |-> tier, engine |-> "returned"])
           /\ result' = merged
           /\ tier_pos' = IF EarlyTermination(tier, merged)
                          THEN Len(tier_order) + 1
                          ELSE NextTier(applicable, tier_pos + 1)
    /\ UNCHANGED << now, calls, prev, pc, request, applicable, ret, source >>
    /\ UNCHANGED engine_vars
    /\ UNCHANGED batch_vars

\* _evaluate_by_tiers: the tier engine raises, and the rules of the tier are
\* evaluated directly
TierEngineFails ==
    /\ UNCHANGED handler_vars
    /\ UNCHANGED other_vars
    /\ pc = "tiers"
    /\ tier_pos <= Len(tier_order)
    /\ LET tier == tier_order[tier_pos]
           tier_rules == RulesOfTier(applicable, tier)
       IN  /\ tier_rules # << >>
           /\ invoked' = Append(invoked, [tier |-> tier, engine |-> "raised"])
           /\ result' = evaluate_rules_directly(result, tier_rules, Req)
    /\ tier_pos' = NextTier(applicable, tier_pos + 1)
    /\ UNCHANGED << now, calls, prev, pc, request, applicable, ret, source >>
    /\ UNCHANGED engine_vars
    /\ UNCHANGED batch_vars

\* evaluate: the result is finalised, counted, cached and returned
Finalize ==
    /\ UNCHANGED handler_vars
    /\ UNCHANGED other_vars
    /\ pc = "tiers"
    /\ tier_pos > Len(tier_order)
    /\ LET final == FinalizeResult(result, applicable, now)
       IN  /\ evaluation_stats' = update_statistics(evaluation_stats, final)
           /\ evaluation_cache' = cache_result(evaluation_cache, CacheKey(Req), final, now)
           /\ result' = final
           /\ ret' = Ok(final)
    /\ source' = "evaluated"
    /\ pc' = "done"
    /\ UNCHANGED << has_manager, added, now, calls, prev, request, applicable, tier_pos, invoked >>
    /\ UNCHANGED batch_vars

\* evaluate: `except Exception`
EvaluateError ==
    /\ UNCHANGED handler_vars
    /\ UNCHANGED other_vars
    /\ pc = "error"
    /\ evaluation_stats' = [evaluation_stats EXCEPT !.failed_evaluations = @ + 1]
    /\ ret' = create_error_result(now)
    /\ source' = "error"
    /\ pc' = "done"
    /\ UNCHANGED << has_manager, added, evaluation_cache, now, calls, prev,
                    request, applicable, tier_pos, result, invoked >>
    /\ UNCHANGED batch_vars

ThisCall ==
    [source |-> source, request |-> request, key |-> CacheKey(Req), ret |-> ret, at |-> now]

\* The caller has the outcome.  prev is the last call of evaluate.
CallOver ==
    /\ pc' = "idle"
    /\ prev' = IF source = "tiered" THEN prev ELSE ThisCall
    /\ request' = 0
    /\ applicable' = << >>
    /\ tier_pos' = 0
    /\ result' = NoResult
    /\ invoked' = << >>
    /\ ret' = Raise("none")
    /\ source' = "none"

Return ==
    /\ UNCHANGED handler_vars
    /\ UNCHANGED other_vars
    /\ pc = "done"
    /\ ~ BatchRunning
    /\ CallOver
    /\ UNCHANGED << now, calls >>
    /\ UNCHANGED engine_vars
    /\ UNCHANGED batch_vars

\* The tier list of RuleEngine.evaluate_tiered
tiered_order == << SAFETY, OPERATIONAL, PREFERENCE >>

\* evaluate_tiered: `if request.tier and request.tier != tier: continue`:
\* the first position of tiered_order from `from` on that the request does
\* not skip, Len(tiered_order) + 1 when the loop is over.
RECURSIVE NextTiered(_, _)
NextTiered(req, from) ==
    IF from > Len(tiered_order)
    THEN Len(tiered_order) + 1
    ELSE IF req.tier = "" \/ req.tier = tiered_order[from]
    THEN from
    ELSE NextTiered(req, from + 1)

\* await engine.evaluate_tiered(request): no cache, no rule lookup
EvaluateTiered(r) ==
    /\ UNCHANGED handler_vars
    /\ UNCHANGED other_vars
    /\ ~ BatchRunning
    /\ pc = "idle"
    /\ calls < MaxCalls
    /\ calls' = calls + 1
    /\ pc' = "tiered"
    /\ request' = r
    /\ applicable' = << >>
    /\ tier_pos' = NextTiered(Requests[r], 1)
    /\ result' = ValidationResult(TRUE, Fixed(10), Fixed(10), now)
    /\ invoked' = << >>
    /\ ret' = Raise("none")
    /\ source' = "none"
    /\ batch' = << >>
    /\ batch_out' = << >>
    /\ batch_ret' = Raise("none")
    /\ UNCHANGED << now, prev >>
    /\ UNCHANGED engine_vars

\* evaluate_tiered: the tier engine returns, its result is merged, and the
\* loop breaks on a blocking Safety result (the test of _evaluate_by_tiers)
TieredEngine ==
    /\ UNCHANGED handler_vars
    /\ UNCHANGED other_vars
    /\ pc = "tiered"
    /\ tier_pos <= Len(tiered_order)
    /\ LET tier == tiered_order[tier_pos]
           merged == merge_tier_result(result, TierEngineEvaluate(tier, Req.content, now))
       IN  /\ invoked' = Append(invoked, [tier |-> tier, engine |-> "returned"])
           /\ result' = merged
           /\ tier_pos' = IF EarlyTermination(tier, merged)
                          THEN Len(tiered_order) + 1
                          ELSE NextTiered(Req, tier_pos + 1)
    /\ UNCHANGED << now, calls, prev, pc, request, applicable, ret, source >>
    /\ UNCHANGED engine_vars
    /\ UNCHANGED batch_vars

\* evaluate_tiered: the tier engine raises, and the loop goes on
TieredEngineFails ==
    /\ UNCHANGED handler_vars
    /\ UNCHANGED other_vars
    /\ pc = "tiered"
    /\ tier_pos <= Len(tiered_order)
    /\ invoked' = Append(invoked, [tier |-> tiered_order[tier_pos], engine |-> "raised"])
    /\ tier_pos' = NextTiered(Req, tier_pos + 1)
    /\ UNCHANGED << now, calls, prev, pc, request, applicable, result, ret, source >>
    /\ UNCHANGED engine_vars
    /\ UNCHANGED batch_vars

\* evaluate_tiered: the result is stamped and returned
TieredReturn ==
    /\ UNCHANGED handler_vars
    /\ UNCHANGED other_vars
    /\ pc = "tiered"
    /\ tier_pos > Len(tiered_order)
    /\ result' = [result EXCEPT !.evaluated_at = now]
    /\ ret' = Ok([result EXCEPT !.evaluated_at = now])
    /\ source' = "tiered"
    /\ pc' = "done"
    /\ UNCHANGED << now, calls, prev, request, applicable, tier_pos, invoked >>
    /\ UNCHANGED engine_vars
    /\ UNCHANGED batch_vars

\* The steps of the clock: the cache TTL and a second less, so that an entry
\* is looked up at the ages 0, cache_ttl - 1 and cache_ttl.
TickSteps == {cache_ttl - 1, cache_ttl}

\* The request lists passed to evaluate_batch (inputs).
Batches ==
    UNION {[1..n -> RequestIds] : n \in 0..MaxBatch}

\* evaluate_batch: `if not requests: return []`, else one task per request
EvaluateBatch(reqs) ==
    /\ UNCHANGED handler_vars
    /\ UNCHANGED other_vars
    /\ pc = "idle"
    /\ ~ BatchRunning
    /\ calls + Len(reqs) <= MaxCalls
    /\ batch' = reqs
    /\ batch_out' = [i \in 1..Len(reqs) |-> Pending]
    /\ batch_ret' = IF reqs = << >> THEN Ok(<< >>) ELSE Raise("running")
    /\ UNCHANGED << now, calls, prev >>
    /\ UNCHANGED engine_vars
    /\ UNCHANGED call_vars

\* The task asyncio runs next: tasks start in the order gather created them,
\* and none suspends inside evaluate.
NextTask ==
    IF \E i \in 1..Len(batch_out) : batch_out[i] = Pending
    THEN CHOOSE i \in 1..Len(batch_out) :
            /\ batch_out[i] = Pending
            /\ \A j \in 1..(i - 1) : batch_out[j] # Pending
    ELSE 0

\* evaluate_single: `async with semaphore: return await self.evaluate(request)`
BatchTask ==
    /\ UNCHANGED handler_vars
    /\ UNCHANGED other_vars
    /\ BatchRunning
    /\ NextTask # 0
    /\ Begin(batch[NextTask])
    /\ UNCHANGED << now, prev >>
    /\ UNCHANGED engine_vars
    /\ UNCHANGED batch_vars

\* gather(return_exceptions=True) keeps the task's result or exception at
\* the position of its request.
BatchTaskDone ==
    /\ UNCHANGED handler_vars
    /\ UNCHANGED other_vars
    /\ BatchRunning
    /\ pc = "done"
    /\ batch_out' = [batch_out EXCEPT ![NextTask] = ret]
    /\ CallOver
    /\ UNCHANGED << now, calls, batch, batch_ret >>
    /\ UNCHANGED engine_vars

\* evaluate_batch: the loop over the gathered results, which replaces each
\* exception by _create_error_result(...), and the return
ProcessedResults(out, at) ==
    [i \in 1..Len(out) |-> IF out[i].exc # "none" THEN create_error_result(at) ELSE out[i]]

BatchReturn ==
    /\ UNCHANGED handler_vars
    /\ UNCHANGED other_vars
    /\ BatchRunning
    /\ pc = "idle"
    /\ NextTask = 0
    /\ LET processed == ProcessedResults(batch_out, now)
       IN  batch_ret' =
             IF \E i \in 1..Len(processed) : processed[i].exc # "none"
             THEN Raise((CHOOSE e \in {processed[i].exc : i \in 1..Len(processed)} : e # "none"))
             ELSE Ok([i \in 1..Len(processed) |-> processed[i].value])
    /\ UNCHANGED << now, calls, prev, batch, batch_out >>
    /\ UNCHANGED engine_vars
    /\ UNCHANGED call_vars

Next ==
    \/ \E id \in RuleIds : AddRule(id)
    \/ \E d \in TickSteps : Tick(d)
    \/ \E r \in RequestIds : Evaluate(r)
    \/ CacheHit
    \/ CacheMiss
    \/ RuleLookup
    \/ TierEngine
    \/ TierEngineFails
    \/ Finalize
    \/ EvaluateError
    \/ Return
    \/ \E r \in RequestIds : EvaluateTiered(r)
    \/ TieredEngine
    \/ TieredEngineFails
    \/ TieredReturn
    \/ \E reqs \in Batches : EvaluateBatch(reqs)
    \/ BatchTask
    \/ BatchTaskDone
    \/ BatchReturn

Spec == Init /\ [][Next]_vars

(***************************************************************************)
(* The enforcement handlers on their own: rule_engines/enforcement.  A     *)
(* handler takes any Rule object, validated by a rule manager or not.      *)
(***************************************************************************)
HandlerCalls ==
    handlers.strict.enforcement_count + handlers.advisory.enforcement_count
        + handlers.adaptive.enforcement_count + handlers.fallback.fallback_count

Count(outcome) == IF outcome # << >> THEN 1 ELSE 0

\* StrictEnforcer.enforce(rule, content)
StrictEnforcerEnforce(id, content) ==
    /\ HandlerCalls < MaxEnforcements
    /\ LET violation == StrictEnforce(RuleCatalog[id], content)
       IN  /\ handlers' = [handlers EXCEPT !.strict.enforcement_count = @ + 1,
                                           !.strict.block_count = @ + Count(violation)]
           /\ enforced' = [handler |-> "strict", rule |-> id, content |-> content,
                           context |-> 0, violation |-> violation]
    /\ UNCHANGED << now, calls, prev >>
    /\ UNCHANGED engine_vars
    /\ UNCHANGED call_vars
    /\ UNCHANGED batch_vars
    /\ UNCHANGED other_vars

\* AdvisoryEnforcer.enforce(rule, content)
AdvisoryEnforcerEnforce(id, content) ==
    /\ HandlerCalls < MaxEnforcements
    /\ LET violation == AdvisoryEnforce(RuleCatalog[id], content)
       IN  /\ handlers' = [handlers EXCEPT !.advisory.enforcement_count = @ + 1,
                                           !.advisory.warning_count = @ + Count(violation)]
           /\ enforced' = [handler |-> "advisory", rule |-> id, content |-> content,
                           context |-> 0, violation |-> violation]
    /\ UNCHANGED << now, calls, prev >>
    /\ UNCHANGED engine_vars
    /\ UNCHANGED call_vars
    /\ UNCHANGED batch_vars
    /\ UNCHANGED other_vars

\* AdaptiveEnforcer.enforce(rule, content, context)
AdaptiveEnforcerEnforce(id, content, c) ==
    /\ HandlerCalls < MaxEnforcements
    /\ LET violation == AdaptiveEnforce(RuleCatalog[id], content, Contexts[c])
       IN  /\ handlers' = [handlers EXCEPT !.adaptive.enforcement_count = @ + 1,
                                           !.adaptive.suggestion_count = @ + Count(violation)]
           /\ enforced' = [handler |-> "adaptive", rule |-> id, content |-> content,
                           context |-> c, violation |-> violation]
    /\ UNCHANGED << now, calls, prev >>
    /\ UNCHANGED engine_vars
    /\ UNCHANGED call_vars
    /\ UNCHANGED batch_vars
    /\ UNCHANGED other_vars

\* FallbackHandler.handle_failure(rule, content, error)
FallbackHandlerHandleFailure(id, content) ==
    /\ HandlerCalls < MaxEnforcements
    /\ handlers' = [handlers EXCEPT !.fallback.fallback_count = @ + 1]
    /\ enforced' = [handler |-> "fallback", rule |-> id, content |-> content,
                    context |-> 0, violation |-> handle_failure(RuleCatalog[id])]
    /\ UNCHANGED << now, calls, prev >>
    /\ UNCHANGED engine_vars
    /\ UNCHANGED call_vars
    /\ UNCHANGED batch_vars
    /\ UNCHANGED other_vars

InitEnforcement ==
    /\ Init
    /\ ~ has_manager

NextEnforcement ==
    \/ \E id \in RuleIds, i \in 1..Len(Contents) : StrictEnforcerEnforce(id, Contents[i])
    \/ \E id \in RuleIds, i \in 1..Len(Contents) : AdvisoryEnforcerEnforce(id, Contents[i])
    \/ \E id \in RuleIds, i \in 1..Len(Contents), c \in 1..Len(Contexts) :
          AdaptiveEnforcerEnforce(id, Contents[i], c)
    \/ \E id \in RuleIds, i \in 1..Len(Contents) : FallbackHandlerHandleFailure(id, Contents[i])

SpecEnforcement == InitEnforcement /\ [][NextEnforcement]_vars

(***************************************************************************)
(* The engine and a caller that keeps the results it received.             *)
(* _cache_result stores the ValidationResult object that evaluate then     *)
(* returns, and a cache hit returns that object again: the caller's result *)
(* and the cache entry's result are one object.  ValidationResult is a     *)
(* pydantic model without allow_mutation = False, so its fields can be     *)
(* assigned.                                                               *)
(***************************************************************************)
\* The caller assigns `result.valid = True` on a result evaluate returned
\* to it, the object held by cache entry k.
CallerSetsValid(k) ==
    /\ UNCHANGED handler_vars
    /\ UNCHANGED other_vars
    /\ pc = "idle"
    /\ ~ BatchRunning
    /\ ~ evaluation_cache[k].result.valid
    /\ evaluation_cache' = [evaluation_cache EXCEPT ![k].result.valid = TRUE]
    /\ UNCHANGED << has_manager, added, evaluation_stats, now, calls, prev >>
    /\ UNCHANGED call_vars
    /\ UNCHANGED batch_vars

NextCaller ==
    \/ Next
    \/ \E k \in 1..Len(evaluation_cache) : CallerSetsValid(k)

SpecCaller == Init /\ [][NextCaller]_vars

(***************************************************************************)
(* _merge_tier_result on its own: a main result, created as                *)
(* _evaluate_by_tiers creates it, into which tier results are merged one   *)
(* after another.                                                          *)
(***************************************************************************)
\* merges into one main result
MaxMerges == 2

\* The tier results merged (inputs): what the three tier engines return for
\* the contents of the model, and results with lower scores.
TierResults ==
    {TierEngineEvaluate(tier, Contents[c], 0) : tier \in Tiers, c \in 1..Len(Contents)}
    \cup
    {[ValidationResult(valid, Fixed(score), Fixed(10), 0) EXCEPT
            !.violations = IF valid THEN << >>
                           ELSE << Violation("ops_pii", OPERATIONAL, "high", "block", TRUE, FALSE) >>,
            !.suggestions = IF valid THEN << "pref_tone" >> ELSE << >>] :
        valid \in BOOLEAN, score \in {0, 5, 10}}

\* self._merge_tier_result(result, tier_result)
MergeTierResult(partial) ==
    /\ UNCHANGED handler_vars
    /\ merges < MaxMerges
    /\ result' = merge_tier_result(result, partial)
    /\ tier_result' = partial
    /\ merges' = merges + 1
    /\ UNCHANGED << now, calls, prev >>
    /\ UNCHANGED << pc, request, applicable, tier_pos, invoked, ret, source >>
    /\ UNCHANGED << engine_vars, batch_vars, gate_vars, resolver_vars >>
    /\ UNCHANGED later_vars

NextMerge == \E partial \in TierResults : MergeTierResult(partial)

SpecMerge == Init /\ [][NextMerge]_vars

(***************************************************************************)
(* Conflict resolvers: conflict_resolution/resolution_strategies/*.py.     *)
(* A resolver takes two rules as dicts (and a context dict) and names the  *)
(* winner; it keeps no state between calls.                                *)
(***************************************************************************)
\* calls of the resolvers
MaxResolutions == 2

\* PriorityBasedResolver.tier_weights, with .get(tier, 0)
tier_weights(tier) ==
    CASE tier = SAFETY      -> 1000
      [] tier = OPERATIONAL -> 500
      [] tier = PREFERENCE  -> 100
      [] OTHER              -> 0

\* score = weight + (1000 - priority)
PriorityScore(rule) == tier_weights(rule.tier) + (1000 - rule.priority)

\* PriorityBasedResolver.resolve
PriorityBasedResolve(rule_1, rule_2) ==
    IF PriorityScore(rule_1) > PriorityScore(rule_2)
    THEN [winning_rule_id |-> rule_1.id, losing_rule_id |-> rule_2.id]
    ELSE [winning_rule_id |-> rule_2.id, losing_rule_id |-> rule_1.id]

\* ContextAwareResolver.context_weights
context_weights == [user_role |-> 10, domain |-> 8, content_type |-> 5]

\* ContextAwareResolver._calculate_context_score
RECURSIVE calculate_context_score(_, _)
calculate_context_score(tags, context) ==
    IF tags = << >>
    THEN 0
    ELSE LET tag == Head(tags)
             add == IF StartsWith(tag, tag_prefix_domain)
                    THEN (IF context.domain = SecondSegment(tag)
                          THEN context_weights.domain ELSE 0)
                    ELSE IF StartsWith(tag, tag_prefix_role)
                    THEN (IF context.user_role = SecondSegment(tag)
                          THEN context_weights.user_role ELSE 0)
                    ELSE 0
         IN  add + calculate_context_score(Tail(tags), context)

\* A resolver that gives a tie to rule_1.
ContextAwareResolveTieFirst(rule_1, rule_2, context) ==
    IF calculate_context_score(rule_1.tags, context)
          >= calculate_context_score(rule_2.tags, context)
    THEN [winning_rule_id |-> rule_1.id]
    ELSE [winning_rule_id |-> rule_2.id]

\* ContextAwareResolver.resolve
ContextAwareResolve(rule_1, rule_2, context) ==
    IF calculate_context_score(rule_1.tags, context)
          > calculate_context_score(rule_2.tags, context)
    THEN [winning_rule_id |-> rule_1.id]
    ELSE [winning_rule_id |-> rule_2.id]

\* Rule priorities used as inputs, the ends of 1..1000 among them.
ResolverPriorities == {1, 10, 100, 500, 600, 900, 1000}

\* Tag lists used as inputs.
ResolverTags ==
    { << >>, << tag_domain_medical >>, << tag_role_admin >>, << tag_role_user >>,
      << tag_domain_medical, tag_role_admin >>, << tag_priority_high, tag_role_user >>,
      << tag_domain_medical, tag_domain_medical >> }

\* The rule dicts passed to a resolver (inputs): rule_a is passed first.
ResolverRule(rule_id, rule_tier, rule_priority, rule_tags) ==
    [id |-> rule_id, tier |-> rule_tier, tags |-> rule_tags, priority |-> rule_priority]

\* The context dicts passed to ContextAwareResolver (inputs).
ResolverContexts ==
    [domain : {NoneStr, txt_medical}, user_role : {NoneStr, txt_admin, txt_user}]

\* PriorityBasedResolver().resolve(rule_1, rule_2)
PriorityBasedResolverResolve(rule_1, rule_2) ==
    /\ UNCHANGED handler_vars
    /\ resolutions < MaxResolutions
    /\ LET out == PriorityBasedResolve(rule_1, rule_2)
       IN  resolved' = [strategy |-> "priority_based", rule_1 |-> rule_1, rule_2 |-> rule_2,
                        context |-> 0, winning_rule_id |-> out.winning_rule_id,
                        losing_rule_id |-> out.losing_rule_id]
    /\ resolutions' = resolutions + 1
    /\ UNCHANGED << now, calls, prev >>
    /\ UNCHANGED << engine_vars, call_vars, batch_vars, gate_vars, merge_vars >>
    /\ UNCHANGED later_vars

\* ContextAwareResolver().resolve(rule_1, rule_2, context)
ContextAwareResolverResolve(rule_1, rule_2, context) ==
    /\ UNCHANGED handler_vars
    /\ resolutions < MaxResolutions
    /\ LET out == ContextAwareResolve(rule_1, rule_2, context)
       IN  resolved' = [strategy |-> "context_aware", rule_1 |-> rule_1, rule_2 |-> rule_2,
                        context |-> context, winning_rule_id |-> out.winning_rule_id,
                        losing_rule_id |-> ""]
    /\ resolutions' = resolutions + 1
    /\ UNCHANGED << now, calls, prev >>
    /\ UNCHANGED << engine_vars, call_vars, batch_vars, gate_vars, merge_vars >>
    /\ UNCHANGED later_vars

NextResolve ==
    \/ \E t1 \in Tiers, t2 \in Tiers, p1 \in ResolverPriorities, p2 \in ResolverPriorities :
          PriorityBasedResolverResolve(ResolverRule("rule_a", t1, p1, << >>),
                                       ResolverRule("rule_b", t2, p2, << >>))
    \/ \E g1 \in ResolverTags, g2 \in ResolverTags, context \in ResolverContexts :
          ContextAwareResolverResolve(ResolverRule("rule_a", PREFERENCE, 100, g1),
                                      ResolverRule("rule_b", PREFERENCE, 100, g2), context)

SpecResolve == Init /\ [][NextResolve]_vars

(***************************************************************************)
(* The concurrency gate of evaluate_batch on its own, for batches larger   *)
(* than the semaphore.  asyncio runs the tasks gather created one at a     *)
(* time, in creation order, each until it suspends or ends; evaluate has   *)
(* no suspension point (every await in rule_engine.py and in the tier      *)
(* engines is on a coroutine that never yields), and Semaphore.acquire     *)
(* suspends only when no slot is free.                                     *)
(***************************************************************************)
\* requests of the batch whose gate is followed
MaxGate == 11

\* The tasks between `async with semaphore` and its exit.
Holding == {i \in 1..Len(tasks) : tasks[i] \in {"inside", "returned", "raised"}}

\* The task the event loop is running, 0 when none is in the middle of a step.
RunningTask ==
    IF Holding # {} THEN CHOOSE i \in Holding : TRUE ELSE 0

\* evaluate_batch with n requests: the semaphore and one task per request
GateBatch(n) ==
    /\ UNCHANGED handler_vars
    /\ tasks = << >>
    /\ tasks' = [i \in 1..n |-> "ready"]
    /\ semaphore' = SemaphoreLimit
    /\ UNCHANGED << now, calls, prev >>
    /\ UNCHANGED << engine_vars, call_vars, batch_vars, merge_vars, resolver_vars >>
    /\ UNCHANGED later_vars

\* Semaphore.acquire when a slot is free: `self._value -= 1`
SemaphoreAcquire(value) == value - 1

\* A semaphore whose release gives no slot back.
SemaphoreReleaseLost(value) == value

\* Semaphore.release: `self._value += 1`
SemaphoreRelease(value) == value + 1

\* evaluate_single: `async with semaphore:`.  The task takes a slot, or
\* suspends until a release wakes it.
GateAcquire(i) ==
    /\ UNCHANGED handler_vars
    /\ RunningTask = 0
    /\ tasks[i] = "ready"
    /\ \A j \in 1..(i - 1) : tasks[j] # "ready"
    /\ IF semaphore > 0
       THEN /\ semaphore' = SemaphoreAcquire(semaphore)
            /\ tasks' = [tasks EXCEPT ![i] = "inside"]
       ELSE /\ semaphore' = semaphore
            /\ tasks' = [tasks EXCEPT ![i] = "waiting"]
    /\ UNCHANGED << now, calls, prev >>
    /\ UNCHANGED << engine_vars, call_vars, batch_vars, merge_vars, resolver_vars >>
    /\ UNCHANGED later_vars

\* evaluate_single: `return await self.evaluate(request)`, which returns a
\* result or raises without suspending
GateEvaluate(i, outcome) ==
    /\ UNCHANGED handler_vars
    /\ tasks[i] = "inside"
    /\ tasks' = [tasks EXCEPT ![i] = outcome]
    /\ UNCHANGED << now, calls, prev, semaphore >>
    /\ UNCHANGED << engine_vars, call_vars, batch_vars, merge_vars, resolver_vars >>
    /\ UNCHANGED later_vars

\* The first task suspended in acquire, which a release wakes.
FirstWaiting(ts) ==
    IF \E j \in 1..Len(ts) : ts[j] = "waiting"
    THEN CHOOSE j \in 1..Len(ts) :
            ts[j] = "waiting" /\ \A k \in 1..(j - 1) : ts[k] # "waiting"
    ELSE 0

\* evaluate_single: the exit of `async with semaphore`, on return and on an
\* exception alike; the task is over and gather holds its outcome
GateRelease(i) ==
    /\ UNCHANGED handler_vars
    /\ tasks[i] \in {"returned", "raised"}
    /\ semaphore' = SemaphoreRelease(semaphore)
    /\ LET over == [tasks EXCEPT ![i] = "done"]
           w    == FirstWaiting(over)
       IN  tasks' = IF w = 0 THEN over ELSE [over EXCEPT ![w] = "ready"]
    /\ UNCHANGED << now, calls, prev >>
    /\ UNCHANGED << engine_vars, call_vars, batch_vars, merge_vars, resolver_vars >>
    /\ UNCHANGED later_vars

GateStep ==
    \/ \E i \in 1..Len(tasks) : GateAcquire(i)
    \/ \E i \in 1..Len(tasks), outcome \in {"returned", "raised"} : GateEvaluate(i, outcome)
    \/ \E i \in 1..Len(tasks) : GateRelease(i)

NextGate ==
    \/ \E n \in 1..MaxGate : GateBatch(n)
    \/ GateStep

\* The event loop runs every task that is ready to run.
SpecGate == Init /\ [][NextGate]_vars /\ WF_vars(GateStep)

(***************************************************************************)
(* UserPreferenceResolver:                                                 *)
(* conflict_resolution/resolution_strategies/user_preference.py.           *)
(* Preference scores are floats; the model takes whole numbers, which the  *)
(* comparisons `== 0.0` and `>` treat as they treat the floats.            *)
(***************************************************************************)
MaxPreferences == 2

PreferenceRuleIds == {"rule_a", "rule_b", "rule_c"}

PreferenceScores == {-1, 0, 1, 2}

\* UserPreference(rule_id=rule_id, preference_score=score, reason=reason)
UserPreference(rule_id, score) == [rule_id |-> rule_id, preference_score |-> score]

\* The loop of resolve over the user's preferences, from the scores so far:
\* `if pref.rule_id == rule_1.get("id") ... elif pref.rule_id == rule_2.get("id")`.
RECURSIVE PreferenceLoop(_, _, _, _)
PreferenceLoop(preferences, id_1, id_2, scores) ==
    IF preferences = << >> THEN scores
    ELSE LET pref == Head(preferences)
             next == IF pref.rule_id = id_1
                     THEN [scores EXCEPT !.score_1 = pref.preference_score]
                     ELSE IF pref.rule_id = id_2
                     THEN [scores EXCEPT !.score_2 = pref.preference_score]
                     ELSE scores
         IN  PreferenceLoop(Tail(preferences), id_1, id_2, next)

\* UserPreferenceResolver.resolve: << >> is None, otherwise the winning rule id.
UserPreferenceResolve(preferences, id_1, id_2) ==
    LET scores == PreferenceLoop(preferences, id_1, id_2, [score_1 |-> 0, score_2 |-> 0])
    IN  IF scores.score_1 = 0 /\ scores.score_2 = 0
        THEN << >>
        ELSE IF scores.score_1 > scores.score_2 THEN << id_1 >> ELSE << id_2 >>

PreferencesSet ==
    Len(user_preferences["user_1"]) + Len(user_preferences["user_2"])

\* UserPreferenceResolver.set_user_preference(user_id, rule_id, score)
SetUserPreference(user_id, rule_id, score) ==
    /\ PreferencesSet < MaxPreferences
    /\ user_preferences' =
          [user_preferences EXCEPT ![user_id] = Append(@, UserPreference(rule_id, score))]
    /\ UNCHANGED preferred
    /\ UNCHANGED << now, calls, prev >>
    /\ UNCHANGED << engine_vars, call_vars, batch_vars, handler_vars >>
    /\ UNCHANGED << gate_vars, merge_vars, resolver_vars, detector_vars, write_vars >>

\* UserPreferenceResolver.resolve(user_id, rule_1, rule_2), rule_1 and rule_2
\* being dicts with the ids id_1 and id_2
UserPreferenceResolverResolve(user_id, id_1, id_2) ==
    /\ preferred' = [user_id |-> user_id, rule_1 |-> id_1, rule_2 |-> id_2,
                     preferences |-> user_preferences[user_id],
                     result |-> UserPreferenceResolve(user_preferences[user_id], id_1, id_2)]
    /\ UNCHANGED user_preferences
    /\ UNCHANGED << now, calls, prev >>
    /\ UNCHANGED << engine_vars, call_vars, batch_vars, handler_vars >>
    /\ UNCHANGED << gate_vars, merge_vars, resolver_vars, detector_vars, write_vars >>

NextPreference ==
    \/ \E u \in Users, id \in PreferenceRuleIds, s \in PreferenceScores :
          SetUserPreference(u, id, s)
    \/ \E u \in Users, id_1 \in PreferenceRuleIds :
          \E id_2 \in PreferenceRuleIds \ {id_1} : UserPreferenceResolverResolve(u, id_1, id_2)

SpecPreference == Init /\ [][NextPreference]_vars

(***************************************************************************)
(* Conflict detectors: conflict_resolution/conflict_detectors/*.py.        *)
(* A detector takes two rules as dicts and returns a conflict or None      *)
(* (<< >>).  The descriptions built with f-strings are kept as the tuple   *)
(* of their text and the values formatted into it.                         *)
(***************************************************************************)
MaxConflicts == 2

\* dict.get(key, default)
DictGet(dict, key, default) == IF key \in DOMAIN dict THEN dict[key] ELSE default

\* abs()
Abs(n) == IF n < 0 THEN 0 - n ELSE n

\* set(rule.get("patterns", []))
KeywordSet(rule) ==
    LET patterns == DictGet(rule, "patterns", << >>)
    IN  {patterns[i] : i \in 1..Len(patterns)}

\* RuleConflictDetector.detect_conflicts: the conflict it returns (and
\* appends to self.conflicts), or None.
detect_conflicts(rule_1, rule_2) ==
    IF KeywordSet(rule_1) \cap KeywordSet(rule_2) # {}
    THEN << [rule_1_id     |-> DictGet(rule_1, "id", "unknown"),
             rule_2_id     |-> DictGet(rule_2, "id", "unknown"),
             conflict_type |-> "keyword_overlap",
             description   |-> "Rules have overlapping keywords",
             severity      |-> "medium"] >>
    ELSE << >>

\* A gap test that counts a gap of exactly 50 as large.
LargeGapInclusive(priority_1, priority_2) == Abs(priority_1 - priority_2) >= 50

\* `abs(priority_1 - priority_2) > 50`
LargeGap(priority_1, priority_2) == Abs(priority_1 - priority_2) > 50

\* PriorityConflictDetector.detect_priority_conflict
detect_priority_conflict(rule_1, rule_2) ==
    LET tier_1     == DictGet(rule_1, "tier", "preference")
        tier_2     == DictGet(rule_2, "tier", "preference")
        priority_1 == DictGet(rule_1, "priority", 100)
        priority_2 == DictGet(rule_2, "priority", 100)
    IN  IF tier_1 = tier_2 /\ LargeGap(priority_1, priority_2)
        THEN << [rule_1_id   |-> DictGet(rule_1, "id", "unknown"),
                 rule_2_id   |-> DictGet(rule_2, "id", "unknown"),
                 tier_1      |-> tier_1,
                 tier_2      |-> tier_2,
                 description |-> << "Large priority gap", priority_1, priority_2 >>] >>
        ELSE << >>

\* SemanticConflictDetector.contradiction_patterns
contradiction_patterns ==
    << << term_allow, term_deny >>, << term_enable, term_disable >>,
       << term_require, term_forbid >>, << term_must, term_must_not >> >>

\* The test of detect_semantic_conflict for one pattern, on the lowered
\* descriptions.
Contradicts(pattern, desc_1, desc_2) ==
    \/ Contains(pattern[1], desc_1) /\ Contains(pattern[2], desc_2)
    \/ Contains(pattern[2], desc_1) /\ Contains(pattern[1], desc_2)

\* SemanticConflictDetector.detect_semantic_conflict: the conflict of the
\* first pattern that matches.
detect_semantic_conflict(rule_1, rule_2) ==
    LET desc_1  == lower(DictGet(rule_1, "description", << >>))
        desc_2  == lower(DictGet(rule_2, "description", << >>))
        matches == {k \in 1..Len(contradiction_patterns) :
                        Contradicts(contradiction_patterns[k], desc_1, desc_2)}
    IN  IF matches = {} THEN << >>
        ELSE LET k == CHOOSE m \in matches : \A n \in matches : m <= n
             IN  << [rule_1_id     |-> DictGet(rule_1, "id", "unknown"),
                     rule_2_id     |-> DictGet(rule_2, "id", "unknown"),
                     conflict_type |-> "semantic_contradiction",
                     description   |-> << "Contradictory terms",
                                          contradiction_patterns[k][1],
                                          contradiction_patterns[k][2] >>] >>

\* The rule dicts given to the detectors (inputs); a dict may lack the keys
\* a detector reads.
DetectorPatterns ==
    { << >>, << kw_copyright >>, << kw_dangerous_weapons >>,
      << kw_copyright, kw_dangerous_weapons >>, << kw_copyright, kw_copyright >> }

DetectorPriorities == {100, 150, 151, 1000}

DetectorDescriptions ==
    { desc_must_verify, desc_must_not_share, desc_must_not_sell, desc_allow_uploads,
      desc_deny_uploads, desc_log_requests }

KeywordRules(rule_id) ==
    {[id |-> rule_id]} \cup {[id |-> rule_id, patterns |-> p] : p \in DetectorPatterns}

PriorityRules(rule_id) ==
    {[id |-> rule_id]}
    \cup {[id |-> rule_id, tier |-> t, priority |-> p] :
              t \in {"safety", "operational", "preference"}, p \in DetectorPriorities}

SemanticRules(rule_id) ==
    {[id |-> rule_id]}
    \cup {[id |-> rule_id, description |-> d] : d \in DetectorDescriptions}

\* RuleConflictDetector().detect_conflicts(rule_1, rule_2)
RuleConflictDetectorDetect(rule_1, rule_2) ==
    /\ Len(conflicts) < MaxConflicts
    /\ LET out == detect_conflicts(rule_1, rule_2)
       IN  /\ conflicts' = conflicts \o out
           /\ detected' = [detector |-> "keyword", rule_1 |-> rule_1, rule_2 |-> rule_2,
                           result |-> out]
    /\ UNCHANGED << now, calls, prev >>
    /\ UNCHANGED << engine_vars, call_vars, batch_vars, handler_vars >>
    /\ UNCHANGED << gate_vars, merge_vars, resolver_vars, preference_vars, write_vars >>

\* PriorityConflictDetector().detect_priority_conflict(rule_1, rule_2)
PriorityConflictDetectorDetect(rule_1, rule_2) ==
    /\ detected' = [detector |-> "priority", rule_1 |-> rule_1, rule_2 |-> rule_2,
                    result |-> detect_priority_conflict(rule_1, rule_2)]
    /\ UNCHANGED conflicts
    /\ UNCHANGED << now, calls, prev >>
    /\ UNCHANGED << engine_vars, call_vars, batch_vars, handler_vars >>
    /\ UNCHANGED << gate_vars, merge_vars, resolver_vars, preference_vars, write_vars >>

\* SemanticConflictDetector().detect_semantic_conflict(rule_1, rule_2)
SemanticConflictDetectorDetect(rule_1, rule_2) ==
    /\ detected' = [detector |-> "semantic", rule_1 |-> rule_1, rule_2 |-> rule_2,
                    result |-> detect_semantic_conflict(rule_1, rule_2)]
    /\ UNCHANGED conflicts
    /\ UNCHANGED << now, calls, prev >>
    /\ UNCHANGED << engine_vars, call_vars, batch_vars, handler_vars >>
    /\ UNCHANGED << gate_vars, merge_vars, resolver_vars, preference_vars, write_vars >>

NextDetect ==
    \/ \E rule_1 \in KeywordRules("rule_a"), rule_2 \in KeywordRules("rule_b") :
          RuleConflictDetectorDetect(rule_1, rule_2)
    \/ \E rule_1 \in PriorityRules("rule_a"), rule_2 \in PriorityRules("rule_b") :
          PriorityConflictDetectorDetect(rule_1, rule_2)
    \/ \E rule_1 \in SemanticRules("rule_a"), rule_2 \in SemanticRules("rule_b") :
          SemanticConflictDetectorDetect(rule_1, rule_2)

SpecDetect == Init /\ [][NextDetect]_vars

(***************************************************************************)
(* The bounded cache on its own: _cache_result of rule_engine.py on a      *)
(* cache filled to its limit.  The cache is filled by the writes of as     *)
(* many evaluate calls with contents of their own; what is stored as the   *)
(* result plays no part in the eviction.  The clock does not run           *)
(* backwards.                                                              *)
(***************************************************************************)
MaxWrites == 2

MaxTicks == 1

\* The cache key of the n-th content, context=None.
WriteKey(n) == [content_hash |-> n, context_hash |-> 0]

\* When the n-th of the filling writes happens: all within one second
\* (every == 0), or one second passes after every `every` writes.
WriteTime(n, every) == IF every = 0 THEN 0 ELSE n \div every

WriteStrides == {0, 1, 250}

\* The cache after the _cache_result calls of the evaluate calls first to
\* last, one after another (the calls of the first half, then the rest).
RECURSIVE CacheAfterWrites(_, _, _, _)
CacheAfterWrites(cache, first, last, every) ==
    IF first > last THEN cache
    ELSE IF first = last
    THEN cache_result(cache, WriteKey(first), NoResult, WriteTime(first, every))
    ELSE LET mid  == (first + last) \div 2
             half == CacheAfterWrites(cache, first, mid, every)
         IN  IF Len(half) > 0 THEN CacheAfterWrites(half, mid + 1, last, every) ELSE << >>

\* n evaluate calls on a new engine, each of which computes and caches a
\* result
CacheFill(n, every) ==
    /\ evaluation_cache = << >>
    /\ writes = 0
    /\ now = 0
    /\ evaluation_cache' = CacheAfterWrites(<< >>, 1, n, every)
    /\ now' = WriteTime(n, every)
    /\ UNCHANGED << written, writes >>
    /\ UNCHANGED << has_manager, added, evaluation_stats, calls, prev >>
    /\ UNCHANGED << call_vars, batch_vars, handler_vars >>
    /\ UNCHANGED << gate_vars, merge_vars, resolver_vars, preference_vars, detector_vars >>

\* self._cache_result(content_hash, context, result) of one more call
CacheResult(n) ==
    /\ evaluation_cache # << >>
    /\ writes < MaxWrites
    /\ evaluation_cache' = cache_result(evaluation_cache, WriteKey(n), NoResult, now)
    /\ written' = << WriteKey(n) >>
    /\ writes' = writes + 1
    /\ UNCHANGED << has_manager, added, evaluation_stats, now, calls, prev >>
    /\ UNCHANGED << call_vars, batch_vars, handler_vars >>
    /\ UNCHANGED << gate_vars, merge_vars, resolver_vars, preference_vars, detector_vars >>

\* A second passes between two calls.
CacheTick ==
    /\ evaluation_cache # << >>
    /\ now < evaluation_cache[Len(evaluation_cache)].timestamp + MaxTicks
    /\ now' = now + 1
    /\ UNCHANGED << written, writes >>
    /\ UNCHANGED engine_vars
    /\ UNCHANGED << calls, prev >>
    /\ UNCHANGED << call_vars, batch_vars, handler_vars >>
    /\ UNCHANGED << gate_vars, merge_vars, resolver_vars, preference_vars, detector_vars >>

\* The contents written to a filled cache: the first and the last of the
\* filling writes again, and two new ones.
WrittenContents == {1, CacheMaxEntries - 1, CacheMaxEntries + 1, CacheMaxEntries + 2}

NextCache ==
    \/ \E n \in {CacheMaxEntries - 1, CacheMaxEntries}, every \in WriteStrides : CacheFill(n, every)
    \/ \E n \in WrittenContents : CacheResult(n)
    \/ CacheTick

InitCache ==
    /\ Init
    /\ has_manager

SpecCache == InitCache /\ [][NextCache]_vars

(***************************************************************************)
(* Properties                                                              *)
(***************************************************************************)
\* The priority of a tier: 1 is the highest.
TierRank(tier) ==
    CASE tier = SAFETY      -> 1
      [] tier = OPERATIONAL -> 2
      [] tier = PREFERENCE  -> 3

\* C1: within one evaluate call the tier evaluators are invoked in the order
\* Safety, Operational, Preference: no tier's evaluator is invoked after the
\* evaluator of a lower-priority tier, whatever rules are applicable and in
\* whatever order the repository returned them.
TierOrderKept ==
    \A i, j \in 1..Len(invoked) :
        i < j => TierRank(invoked[i].tier) < TierRank(invoked[j].tier)

\* A call that invoked the Safety and the Preference evaluator although the
\* repository returned the Preference rule first.
TierOrderWitness ==
    /\ pc = "done"
    /\ Len(invoked) = 2
    /\ invoked[1].tier = SAFETY
    /\ invoked[2].tier = PREFERENCE
    /\ RuleCatalog[applicable[1]].tier = PREFERENCE
    /\ RuleCatalog[applicable[2]].tier = SAFETY

\* The result holds a blocking violation of the Safety tier.
SafetyBlocked(res) ==
    \E i \in 1..Len(res.violations) :
        /\ res.violations[i].rule_tier = SAFETY
        /\ res.violations[i].blocked

Range(seq) == {seq[i] : i \in 1..Len(seq)}

\* C3: for any Safety-tier rule with Strict enforcement whose keyword occurs
\* in the submitted content, evaluate returns a result with valid = false
\* that is blocked; the content "How to make dangerous weapons" is blocked.
StrictSafetyRuleBlocks ==
    ( /\ pc = "done"
      /\ source = "evaluated"
      /\ \E id \in Range(applicable) :
            /\ RuleCatalog[id].tier = SAFETY
            /\ RuleCatalog[id].enforcement_level.value = "strict"
            /\ FirstMatch(RuleCatalog[id].patterns, Req.content) # << >> )
    => /\ ret.exc = "none"
       /\ ~ ret.value.valid
       /\ is_blocked(ret.value)

\* C4: for content that matches no pattern of any applicable rule, evaluate
\* returns valid = true and an empty violations list, whatever rules are
\* loaded.
UnmatchedContentIsValid ==
    ( /\ pc = "done"
      /\ source \in {"evaluated", "empty"}
      /\ \A id \in Range(applicable) :
            FirstMatch(RuleCatalog[id].patterns, Req.content) = << >> )
    => /\ ret.exc = "none"
       /\ ret.value.valid
       /\ ret.value.violations = << >>

\* C5: every violation of the Safety tier has user_override_allowed = false,
\* whatever the rule declares, also when the fallback handler produces it.
SafetyNeverOverridable ==
    enforced.handler = "fallback" =>
        \A i \in 1..Len(enforced.violation) :
            enforced.violation[i].rule_tier = SAFETY
                => ~ enforced.violation[i].user_override_allowed

\* C6: whenever a rule with enforcement level Strict matches the content,
\* the violation produced for it has action_taken = BLOCK, blocked = true
\* and user_override_allowed = false, whatever the rule's auto_block and
\* user_override flags, also in the engine's own single-rule evaluation.
StrictMatchBlocks ==
    pc \in {"tiers", "done"} =>
        \A i \in 1..Len(result.violations) :
            LET v == result.violations[i]
            IN  ( /\ v.rule_id \in RuleIds
                  /\ RuleCatalog[v.rule_id].enforcement_level.value = "strict" )
                => /\ v.action_taken = "block"
                   /\ v.blocked
                   /\ ~ v.user_override_allowed

\* The cache holds an entry for the key of the running call.
HasEntry == CacheIndex(evaluation_cache, CacheKey(Req)) # 0

\* The age of that entry.
EntryAge == now - evaluation_cache[CacheIndex(evaluation_cache, CacheKey(Req))].timestamp

\* C7: a cached result is never returned once its age has reached
\* cache_ttl: a result served from the cache is younger than cache_ttl, and
\* a lookup that finds an entry of age cache_ttl or more deletes it and
\* returns nothing, so that the request goes on to rule lookup.
ExpiredNeverReturned ==
    /\ [](pc = "done" /\ source = "cache" => HasEntry /\ EntryAge < cache_ttl)
    /\ [][ (pc = "cache_check" /\ HasEntry /\ EntryAge >= cache_ttl)
              => /\ pc' = "lookup"
                 /\ source' # "cache"
                 /\ CacheIndex(evaluation_cache', CacheKey(Req)) = 0 ]_vars

\* A call that found the entry of the call before it at the age cache_ttl,
\* deleted it and went on to rule lookup.
ExpiredWitness ==
    /\ pc = "lookup"
    /\ prev.source = "evaluated"
    /\ prev.key = CacheKey(Req)
    /\ now - prev.at = cache_ttl
    /\ ~ HasEntry

\* The running call of evaluate repeats the content and context of the call
\* of evaluate before it, inside the cache TTL, and has its outcome.
RepeatedCall ==
    /\ pc = "done"
    /\ source # "tiered"
    /\ prev.key = CacheKey(Req)
    /\ now - prev.at < cache_ttl

\* C8 as stated: the second of two calls with identical content and context
\* inside the cache TTL returns a result equal to the first and is served
\* from the cache without invoking a tier evaluator, for every first-call
\* outcome, the one where no rule was applicable included.
RepeatAlwaysCached ==
    (RepeatedCall /\ prev.source \in {"evaluated", "empty"})
    => /\ source = "cache"
       /\ ret = prev.ret
       /\ invoked = << >>

\* C8, amended: the second call is served from the cache, with the result of
\* the first, when the first call evaluated its applicable rules; when no
\* rule was applicable to the first call nothing was cached, and the second
\* call is not served from the cache.
RepeatCachedAfterEvaluation ==
    /\ (RepeatedCall /\ prev.source = "evaluated")
          => /\ source = "cache"
             /\ ret = prev.ret
             /\ invoked = << >>
    /\ (RepeatedCall /\ prev.source = "empty") => source # "cache"

\* A call served from the cache one second before the entry of the call
\* before it expires.
RepeatWitness ==
    /\ RepeatedCall
    /\ prev.source = "evaluated"
    /\ now - prev.at = cache_ttl - 1
    /\ source = "cache"
    /\ ret.value.violations # << >>

\* C9: every call of evaluate ends by returning a ValidationResult, never by
\* raising; after a failure the result has valid = false and exactly one
\* violation, the system error, with blocked = true.
EvaluateNeverRaises ==
    pc = "done" =>
        /\ ret.exc = "none"
        /\ source = "error" =>
              /\ ~ ret.value.valid
              /\ Len(ret.value.violations) = 1
              /\ ret.value.violations[1].blocked

\* evaluate_batch has returned or raised, after exactly one of its two or
\* more requests failed.
OneRequestFailed ==
    /\ Len(batch) >= 2
    /\ ~ BatchRunning
    /\ batch_ret # Raise("none")
    /\ \E i \in 1..Len(batch) :
          /\ batch_out[i].exc # "none"
          /\ \A j \in 1..Len(batch) : j # i => batch_out[j].exc = "none"

\* C10: evaluate_batch isolates the failure of one request: the call still
\* returns one result per request, an invalid error result for the request
\* that failed and for every other request the result its task returned.
BatchIsolatesFailure ==
    OneRequestFailed
    => /\ batch_ret.exc = "none"
       /\ Len(batch_ret.value) = Len(batch)
       /\ \A i \in 1..Len(batch) :
             IF batch_out[i].exc # "none"
             THEN ~ batch_ret.value[i].valid
             ELSE batch_ret.value[i] = batch_out[i].value

\* C11: evaluate_batch returns a list as long as its input whose element at
\* position i is the result of the request at position i, whatever the order
\* in which the evaluations complete; an empty input gives an empty list.
BatchKeepsOrder ==
    (batch_ret # Raise("none") /\ ~ BatchRunning) =>
        /\ batch_ret.exc = "none"
        /\ Len(batch_ret.value) = Len(batch)
        /\ \A i \in 1..Len(batch) : Ok(batch_ret.value[i]) = batch_out[i]

\* C12: during evaluate_batch at most 10 requests, the limit of the
\* semaphore, are inside evaluate at any moment, the slots taken being those
\* of the requests inside, and every request of the batch gets its slot and
\* completes.
BatchGateBounds ==
    /\ [](/\ Cardinality(Holding) <= SemaphoreLimit
          /\ semaphore = SemaphoreLimit - Cardinality(Holding))
    /\ \A i \in 1..MaxGate :
          [](Len(tasks) >= i => <>(Len(tasks) >= i /\ tasks[i] = "done"))

\* A batch larger than the semaphore, all of whose tasks are over.
BatchGateWitness ==
    /\ Len(tasks) > SemaphoreLimit
    /\ \A i \in 1..Len(tasks) : tasks[i] = "done"

\* The evaluate calls gathered on a new engine are all over: the tasks of
\* the batch are the only calls the engine has had.
GatheredCallsOver ==
    /\ batch # << >>
    /\ calls = Len(batch)
    /\ \A i \in 1..Len(batch_out) : batch_out[i] # Pending
    /\ pc = "idle"

\* Call i of the batch evaluated rules: it returned a result of
\* _evaluate_by_tiers that no earlier call had put in the cache under its key.
EvaluatedRules(i) ==
    /\ batch_out[i].exc = "none"
    /\ batch_out[i].value.total_rules_evaluated > 0
    /\ ~ \E j \in 1..(i - 1) :
            /\ CacheKey(Requests[batch[j]]) = CacheKey(Requests[batch[i]])
            /\ batch_out[j].exc = "none"
            /\ batch_out[j].value.total_rules_evaluated > 0

RECURSIVE ViolationsUpTo(_)
ViolationsUpTo(n) ==
    IF n = 0 THEN 0
    ELSE ViolationsUpTo(n - 1)
            + (IF EvaluatedRules(n) THEN Len(batch_out[n].value.violations) ELSE 0)

CachedResultImmutable ==
    [][\A k \in 1..Len(evaluation_cache) : \A j \in 1..Len(evaluation_cache') :
          (/\ evaluation_cache'[j].key = evaluation_cache[k].key
           /\ evaluation_cache'[j].timestamp = evaluation_cache[k].timestamp)
          => evaluation_cache'[j].result = evaluation_cache[k].result]_vars

\* The rules of the running call whose tier was evaluated rule by rule and
\* whose match/resolve step, _evaluate_single_rule, raises.
FailedRules ==
    {id \in Range(applicable) :
        /\ \E k \in 1..Len(invoked) :
              invoked[k].engine = "raised" /\ invoked[k].tier = RuleCatalog[id].tier
        /\ evaluate_single_rule(RuleCatalog[id], Req.content, Req.context).exc # "none"}

\* C15: the failure of one rule's match/resolve step does not abort the tier
\* or the request, and it is routed to the fallback handler: the result gains
\* the handler's WARNING violation for a Safety-tier rule and nothing for a
\* rule of another tier.
RuleFailureFallsBack ==
    (pc = "done" /\ source = "evaluated") =>
        /\ ret.exc = "none"
        /\ \A id \in FailedRules :
              /\ \A v \in Range(handle_failure(RuleCatalog[id])) :
                    v \in Range(ret.value.violations)
              /\ RuleCatalog[id].tier # SAFETY =>
                    ~ \E v \in Range(ret.value.violations) :
                          v.rule_id \in {id, FallbackRuleId(id)}

\* C16: the enforcement level of a matching rule alone fixes the action and
\* the blocking flag of its violation: Advisory gives action_taken = WARNING,
\* blocked = false and user_override_allowed = true; Adaptive gives no
\* violation for the role admin and otherwise action_taken = SUGGESTION with
\* blocked = false; neither gives blocked = true, whatever the rule's
\* auto_block flag.
LevelFixesAction ==
    pc \in {"tiers", "done"} =>
        \A i \in 1..Len(result.violations) :
            LET v == result.violations[i]
            IN  v.rule_id \in RuleIds =>
                  /\ RuleCatalog[v.rule_id].enforcement_level.value = "advisory" =>
                        /\ v.action_taken = "warning"
                        /\ ~ v.blocked
                        /\ v.user_override_allowed
                  /\ RuleCatalog[v.rule_id].enforcement_level.value = "adaptive" =>
                        /\ Req.context.user_role # txt_admin
                        /\ v.action_taken = "suggestion"
                        /\ ~ v.blocked

\* C17: merging a tier's partial result into the aggregate appends the
\* tier's violations and suggestions after those already present, sets valid
\* to the conjunction of both valid flags and the score to the minimum of
\* both scores; so over any sequence of merges the score never increases and
\* valid never returns from false to true.
MergeIsMonotone ==
    [][merges' = merges + 1 =>
          /\ result'.violations = result.violations \o tier_result'.violations
          /\ result'.suggestions = result.suggestions \o tier_result'.suggestions
          /\ result'.valid = (result.valid /\ tier_result'.valid)
          /\ result'.total_score \in {result.total_score, tier_result'.total_score}
          /\ result'.total_score <= result.total_score
          /\ result'.total_score <= tier_result'.total_score
          /\ ~ result.valid => ~ result'.valid]_vars

\* After two merges the aggregate is invalid and below the score of the tier
\* merged last, which was valid.
MergeWitness ==
    /\ merges = 2
    /\ tier_result.valid /\ ~ result.valid
    /\ result.total_score < tier_result.total_score
    /\ Len(result.violations) > 0 /\ Len(result.suggestions) > 0

\* The score the priority-based strategy gives a rule: the weight of its
\* tier plus 1000 minus its priority.
TierWeightScore(rule) ==
    (CASE rule.tier = SAFETY -> 1000 [] rule.tier = OPERATIONAL -> 500 [] rule.tier = PREFERENCE -> 100)
        + (1000 - rule.priority)

\* C18: PriorityBasedResolver.resolve scores each rule as tier_weight(tier) +
\* (1000 - priority) with the weights Safety 1000, Operational 500 and
\* Preference 100, returns the rule with the strictly higher score as the
\* winner, and returns rule A, its first argument, when the scores are equal.
PriorityTieGoesToFirst ==
    resolved.strategy = "priority_based" =>
        LET score_a == TierWeightScore(resolved.rule_1)
            score_b == TierWeightScore(resolved.rule_2)
        IN  /\ score_a > score_b => resolved.winning_rule_id = resolved.rule_1.id
            /\ score_b > score_a => resolved.winning_rule_id = resolved.rule_2.id
            /\ score_a = score_b => resolved.winning_rule_id = resolved.rule_1.id

\* C19: priority-based resolution between rules of different tiers picks the
\* rule of the higher tier, Safety over Operational over Preference, for all
\* priorities and in either argument order.
HigherTierWins ==
    (resolved.strategy = "priority_based" /\ resolved.rule_1.tier # resolved.rule_2.tier) =>
        resolved.winning_rule_id =
            IF TierRank(resolved.rule_1.tier) < TierRank(resolved.rule_2.tier)
            THEN resolved.rule_1.id
            ELSE resolved.rule_2.id

\* The number of tags of the rule that are the prefix followed by the value.
TagsEqual(rule, prefix, value) ==
    Cardinality({i \in 1..Len(rule.tags) : rule.tags[i] = prefix \o value})

\* The context score of a rule: 8 for every domain tag of the context's
\* domain and 10 for every role tag of the context's role.
ContextMatchScore(rule, context) ==
    8 * TagsEqual(rule, tag_prefix_domain, context.domain)
        + 10 * TagsEqual(rule, tag_prefix_role, context.user_role)

\* C20: ContextAwareResolver.resolve scores each rule as the sum of 8 for
\* every domain tag equal to the context's domain and 10 for every role tag
\* equal to the context's role, returns rule A only when its score is
\* strictly higher, and returns rule B when the scores are equal, also when
\* both are 0.
ContextTieGoesToSecond ==
    resolved.strategy = "context_aware" =>
        LET score_a == ContextMatchScore(resolved.rule_1, resolved.context)
            score_b == ContextMatchScore(resolved.rule_2, resolved.context)
        IN  resolved.winning_rule_id =
                IF score_a > score_b THEN resolved.rule_1.id ELSE resolved.rule_2.id

\* Rule A and rule B both match the context with the same score, 18, and
\* rule B is the winner.
ContextTieWitness ==
    /\ resolved.strategy = "context_aware"
    /\ resolved.rule_1.tags = << tag_domain_medical, tag_role_admin >>
    /\ ContextMatchScore(resolved.rule_1, resolved.context) = 18
    /\ ContextMatchScore(resolved.rule_2, resolved.context) = 18
    /\ resolved.winning_rule_id = resolved.rule_2.id

\* The rule has a preference recorded among the preferences of the user.
Recorded(preferences, rule_id) ==
    \E i \in 1..Len(preferences) : preferences[i].rule_id = rule_id

\* C21: UserPreferenceResolver.resolve returns None when neither of the two
\* rules has a preference recorded for the user, and returns a winner when at
\* least one of them has, after any sequence of set_user_preference calls.
PreferenceDecides ==
    preferred.user_id # "" =>
        (preferred.result = << >>) <=>
            (/\ ~ Recorded(preferred.preferences, preferred.rule_1)
             /\ ~ Recorded(preferred.preferences, preferred.rule_2))

\* What a detector returns for the two rules.
Detect(detector, rule_1, rule_2) ==
    CASE detector = "keyword"  -> detect_conflicts(rule_1, rule_2)
      [] detector = "priority" -> detect_priority_conflict(rule_1, rule_2)
      [] detector = "semantic" -> detect_semantic_conflict(rule_1, rule_2)

\* A detector's result with the two rule references swapped.
SwapReferences(out) ==
    IF out = << >> THEN << >>
    ELSE << [out[1] EXCEPT !.rule_1_id = out[1].rule_2_id,
                           !.rule_2_id = out[1].rule_1_id] >>

\* C22: each of the three conflict detectors is order-independent: detecting
\* (A, B) reports a conflict if and only if detecting (B, A) does, with the
\* same type and description and only the two rule references swapped.
DetectorsOrderIndependent ==
    detected.detector # "none" =>
        Detect(detected.detector, detected.rule_2, detected.rule_1)
            = SwapReferences(detected.result)

\* C23: the priority-gap detector reports a conflict if and only if both
\* rules are in the same tier and the absolute difference of their priorities
\* is strictly greater than 50: a gap of 51 is a conflict, a gap of exactly 50
\* is not, and rules of different tiers never conflict.
PriorityGapConflict ==
    detected.detector = "priority" =>
        LET tier_1     == DictGet(detected.rule_1, "tier", "preference")
            tier_2     == DictGet(detected.rule_2, "tier", "preference")
            priority_1 == DictGet(detected.rule_1, "priority", 100)
            priority_2 == DictGet(detected.rule_2, "priority", 100)
            gap        == IF priority_1 > priority_2 THEN priority_1 - priority_2
                          ELSE priority_2 - priority_1
        IN  /\ (detected.result # << >>) <=> (tier_1 = tier_2 /\ gap > 50)
            /\ tier_1 = tier_2 /\ gap = 51 => detected.result # << >>
            /\ tier_1 = tier_2 /\ gap = 50 => detected.result = << >>
            /\ tier_1 # tier_2 => detected.result = << >>

\* Two Safety rules with the priorities 100 and 151 were reported as a
\* conflict.
PriorityGapWitness ==
    /\ detected.detector = "priority"
    /\ detected.rule_1 = [id |-> "rule_a", tier |-> "safety", priority |-> 100]
    /\ detected.rule_2 = [id |-> "rule_b", tier |-> "safety", priority |-> 151]
    /\ detected.result # << >>

\* The words of a string: str.split(" ").
RECURSIVE Words(_)
Words(s) ==
    IF \E i \in 1..Len(s) : s[i] = " "
    THEN LET k == CHOOSE i \in 1..Len(s) : s[i] = " " /\ \A j \in 1..(i - 1) : s[j] # " "
         IN  {SubSeq(s, 1, k - 1)} \cup Words(SubSeq(s, k + 1, Len(s)))
    ELSE {s}

\* The description of the rule holds the term as one of its words, in any
\* case.
HasTerm(rule, term) == term \in Words(lower(DictGet(rule, "description", << >>)))

\* C27: the semantic-contradiction detector reports a conflict if and only
\* if, for some pair of its antonym list, one rule's description contains the
\* positive term and the other's the negative term; two rules that both
\* contain only the negative term of a pair (both say must_not) are not
\* reported as conflicting.
SemanticConflictIffOpposed ==
    detected.detector = "semantic" =>
        (detected.result # << >>) <=>
            \E k \in 1..Len(contradiction_patterns) :
                LET pos == contradiction_patterns[k][1]
                    neg == contradiction_patterns[k][2]
                IN  \/ HasTerm(detected.rule_1, pos) /\ HasTerm(detected.rule_2, neg)
                    \/ HasTerm(detected.rule_1, neg) /\ HasTerm(detected.rule_2, pos)

\* C24: early termination happens only when it is requested: for a request
\* with early_termination = false whose Safety tier produced a blocking
\* violation, the Operational and Preference tier evaluators are still
\* invoked when rules of those tiers are applicable.
EarlyTerminationOnlyOnRequest ==
    ( /\ pc = "done"
      /\ source = "evaluated"
      /\ ~ Req.early_termination
      /\ invoked # << >>
      /\ invoked[1] = [tier |-> SAFETY, engine |-> "returned"]
      /\ SafetyBlocked(result) )
    => \A tier \in {OPERATIONAL, PREFERENCE} :
          (\E i \in 1..Len(applicable) : RuleCatalog[applicable[i]].tier = tier)
              => \E j \in 1..Len(invoked) : invoked[j].tier = tier

\* The keys of a cache.
CacheKeys(cache) == {cache[i].key : i \in 1..Len(cache)}

\* C25: the result cache is bounded and evicts oldest-first: after every
\* _cache_result call the cache holds at most 1000 entries, and when a write
\* takes it above 1000 the entries removed are exactly the 100 with the
\* oldest timestamps, never the entry just written.
CacheBoundedOldestFirst ==
    [][ writes' = writes + 1 =>
          LET key       == written'[1]
              keptKeys  == CacheKeys(evaluation_cache')
              removed   == {i \in 1..Len(evaluation_cache) :
                               evaluation_cache[i].key \notin keptKeys}
              removedAt == {evaluation_cache[i].timestamp : i \in removed}
              keptAt    == {evaluation_cache'[i].timestamp : i \in 1..Len(evaluation_cache')}
              above     == Cardinality(CacheKeys(evaluation_cache) \cup {key}) > CacheMaxEntries
          IN  /\ Len(evaluation_cache') <= CacheMaxEntries
              /\ key \in keptKeys
              /\ evaluation_cache'[CacheIndex(evaluation_cache', key)].timestamp = now
              /\ above => /\ Cardinality(removed) = CacheEvictCount
                          /\ Len(evaluation_cache') = CacheMaxEntries + 1 - CacheEvictCount
                          /\ \A a \in removedAt, b \in keptAt : a <= b
              /\ ~ above => removed = {}
      ]_vars

\* A write to a cache of 1000 entries, written at different times, left 901
\* entries, the written one among them.
CacheEvictionWitness ==
    /\ writes > 0
    /\ Len(evaluation_cache) = CacheMaxEntries + 1 - CacheEvictCount
    /\ written[1] \in CacheKeys(evaluation_cache)
    /\ evaluation_cache[1].timestamp < evaluation_cache[Len(evaluation_cache)].timestamp

\* C26: in every result returned by a tier evaluator and in every aggregate
\* result returned by evaluate, valid is false whenever at least one of its
\* violations has blocked = true.
BlockedIsInvalid ==
    request # 0 =>
        /\ is_blocked(result) => ~ result.valid
        /\ \A j \in 1..Len(invoked) :
              invoked[j].engine = "returned" =>
                  LET partial == TierEngineEvaluate(invoked[j].tier, Req.content, now)
                  IN  is_blocked(partial) => ~ partial.valid
        /\ pc = "done" /\ ret.exc = "none" /\ ret.value # << >> =>
              (is_blocked(ret.value) => ~ ret.value.valid)

\* evaluate returned an invalid result whose blocking violation is the
\* Operational engine's.
BlockedIsInvalidWitness ==
    /\ pc = "done"
    /\ source = "evaluated"
    /\ ret.exc = "none"
    /\ ~ ret.value.valid
    /\ \E i \in 1..Len(ret.value.violations) :
          /\ ret.value.violations[i].rule_tier = OPERATIONAL
          /\ ret.value.violations[i].blocked

\* The filters of a request.
Filters(req) == << req.rule_ids, req.tier, req.rule_types >>

\* C28: a cache hit only ever returns a result computed for a request with
\* the same tier, rule_ids and rule_types filters: a result cached for a
\* filtered request is never returned to a later request with the same
\* content and context but a different filter or none.
CacheHitSameFilters ==
    ( /\ pc = "done"
      /\ source = "cache"
      /\ prev.source = "evaluated"
      /\ prev.key = CacheKey(Req)
      /\ ret = prev.ret )
    => Filters(Requests[prev.request]) = Filters(Req)

\* C29: after any sequence of evaluate calls with any mix of outcomes, the
\* statistics satisfy
\* total_evaluations = successful_evaluations + failed_evaluations.
StatisticsAddUp ==
    evaluation_stats.total_evaluations
        = evaluation_stats.successful_evaluations + evaluation_stats.failed_evaluations

\* C30: only rules whose status is active take part in an evaluation: for
\* every filter mode of a request (explicit rule ids, tier, rule types, or
\* context only), the list of applicable rules that drives the tier loop
\* contains no inactive, deprecated or testing rule.
ApplicableAreActive ==
    \A i \in 1..Len(applicable) : RuleCatalog[applicable[i]].status.value = "active"

====
